---------------------------- MODULE Spec2Model ----------------------------
(***************************************************************************)
(* A model of the static-ad-translation Figma plugin (src/code.ts).        *)
(*                                                                         *)
(* Text is modelled as sequences of one-character strings, so that the     *)
(* markup encoder (extractTextNode / buildStyleString / escapeHtml) and    *)
(* the decoder (parseHTML / parseHTMLRecursive / parseStyleString /        *)
(* decodeHTML) are computed character by character as the code computes    *)
(* them.  Numbers are fixed-point: an integer n stands for n / Scale.      *)
(***************************************************************************)
EXTENDS Integers, Sequences, FiniteSets, TLC

(***************************************************************************)
(* Character sequences and the JavaScript string primitives the code uses. *)
(* Offsets are 0-based, as in the source.                                   *)
(***************************************************************************)
Chars(s) == [i \in 1..Len(s) |-> SubSeq(s, i, i)]

Undefined == << >>

Whitespace == {" ", "\n", "\t"}

Digits == <<"0", "1", "2", "3", "4", "5", "6", "7", "8", "9">>

DigitSet == {Digits[i] : i \in 1..10}

UpperLetters == Chars("ABCDEFGHIJKLMNOPQRSTUVWXYZ")

LowerLetters == Chars("abcdefghijklmnopqrstuvwxyz")

Min(a, b) == IF a < b THEN a ELSE b

Max(a, b) == IF a > b THEN a ELSE b

\* s.charAt(i), "" past the end
CharAt(s, i) == IF i >= 0 /\ i < Len(s) THEN s[i + 1] ELSE ""

\* s.substring(a, b)
Substring(s, a, b) == SubSeq(s, Min(a, Len(s)) + 1, Min(b, Len(s)))

\* s.substring(a) / s.substr(a)
SubstringFrom(s, a) == SubSeq(s, Min(a, Len(s)) + 1, Len(s))

\* s.substr(i, Len(p)) === p
StartsWithAt(s, i, p) ==
    /\ i + Len(p) <= Len(s)
    /\ \A k \in 1..Len(p) : s[i + k] = p[k]

\* the least element of a set of offsets, or -1 when it is empty
FirstOf(offsets) ==
    IF offsets = {} THEN -1
    ELSE CHOOSE i \in offsets : \A j \in offsets : i <= j

\* s.indexOf(p, from): the first offset >= from where p occurs, or -1
IndexOf(s, p, from) ==
    FirstOf({i \in from..(Len(s) - Len(p)) : StartsWithAt(s, i, p)})

\* s.includes(p)
Includes(s, p) == IndexOf(s, p, 0) # -1

\* s.endsWith(p)
EndsWith(s, p) == Len(p) <= Len(s) /\ StartsWithAt(s, Len(s) - Len(p), p)

\* s.replace(/p/g, r) for a literal pattern p: left to right, non-overlapping
RECURSIVE ReplaceAllFrom(_, _, _, _)
ReplaceAllFrom(s, p, r, i) ==
    LET at == IndexOf(s, p, i)
    IN  IF at = -1 THEN SubstringFrom(s, i)
        ELSE Substring(s, i, at) \o r \o ReplaceAllFrom(s, p, r, at + Len(p))

ReplaceAll(s, p, r) == ReplaceAllFrom(s, p, r, 0)

\* s.replace(p, r) for a string pattern p: the first occurrence only
ReplaceFirst(s, p, r) ==
    LET at == IndexOf(s, p, 0)
    IN  IF at = -1 THEN s
        ELSE Substring(s, 0, at) \o r \o SubstringFrom(s, at + Len(p))

LetterIndex(letters, c) ==
    IF \E k \in 1..Len(letters) : letters[k] = c
    THEN CHOOSE k \in 1..Len(letters) : letters[k] = c
    ELSE 0

\* s.toLowerCase()
ToLowerCase(s) ==
    [i \in 1..Len(s) |->
        LET k == LetterIndex(UpperLetters, s[i])
        IN  IF k = 0 THEN s[i] ELSE LowerLetters[k]]

\* s.toUpperCase()
ToUpperCase(s) ==
    [i \in 1..Len(s) |->
        LET k == LetterIndex(LowerLetters, s[i])
        IN  IF k = 0 THEN s[i] ELSE UpperLetters[k]]

\* the length of the run of characters in (inSet) or not in (~inSet) the set
\* cs that starts at offset i
RunOf(s, i, cs, inSet) ==
    LET stop == FirstOf({k \in i..(Len(s) - 1) : (s[k + 1] \in cs) # inSet})
    IN  IF i >= Len(s) THEN 0
        ELSE IF stop = -1 THEN Len(s) - i
        ELSE stop - i

\* s.trimStart(), s.trim()
TrimLeft(s) == SubstringFrom(s, RunOf(s, 0, Whitespace, TRUE))

Trim(s) ==
    LET kept == {k \in 1..Len(s) : s[k] \notin Whitespace}
    IN  IF kept = {} THEN << >>
        ELSE SubSeq(s, CHOOSE a \in kept : \A k \in kept : a <= k,
                       CHOOSE b \in kept : \A k \in kept : b >= k)

\* s.split(sep) for a one-character separator
RECURSIVE SplitFrom(_, _, _)
SplitFrom(s, sep, i) ==
    LET at == IndexOf(s, <<sep>>, i)
    IN  IF at = -1 THEN << SubstringFrom(s, i) >>
        ELSE << Substring(s, i, at) >> \o SplitFrom(s, sep, at + 1)

Split(s, sep) == SplitFrom(s, sep, 0)

\* parts.join(sep)
RECURSIVE Join(_, _)
Join(parts, sep) ==
    IF parts = << >> THEN << >>
    ELSE IF Len(parts) = 1 THEN parts[1]
    ELSE parts[1] \o sep \o Join(Tail(parts), sep)

\* the concatenation of a sequence of character sequences
RECURSIVE Concat(_)
Concat(parts) == IF parts = << >> THEN << >> ELSE Head(parts) \o Concat(Tail(parts))

(***************************************************************************)
(* Numbers.  A JavaScript number v is modelled by the integer v * Scale    *)
(* (three decimals).  What parseFloat returns is [isNaN, value].           *)
(***************************************************************************)
Scale == 10 * 10 * 10

NaN == [isNaN |-> TRUE, value |-> 0]

Num(v) == [isNaN |-> FALSE, value |-> v]

DigitValue(c) == LetterIndex(Digits, c) - 1

RECURSIVE NatStr(_)
NatStr(n) ==
    IF n < 10 THEN <<Digits[n + 1]>>
    ELSE Append(NatStr(n \div 10), Digits[(n % 10) + 1])

StripTrailingZeros(s) ==
    LET kept == {k \in 1..Len(s) : s[k] # "0"}
    IN  IF kept = {} THEN << >>
        ELSE SubSeq(s, 1, CHOOSE b \in kept : \A k \in kept : b >= k)

\* `${v}` for a number v: Number.prototype.toString
NumberToString(v) ==
    LET a    == IF v < 0 THEN 0 - v ELSE v
        ip   == a \div Scale
        fp   == a % Scale
        frac == StripTrailingZeros(SubSeq(NatStr(Scale + fp), 2, 4))
    IN  (IF v < 0 THEN <<"-">> ELSE << >>)
        \o NatStr(ip)
        \o (IF fp = 0 THEN << >> ELSE <<".">> \o frac)

\* the length of the run of digits of s starting at offset i
DigitRun(s, i) == RunOf(s, i, DigitSet, TRUE)

RECURSIVE DigitsValue(_)
DigitsValue(ds) ==
    IF ds = << >> THEN 0
    ELSE 10 * DigitsValue(SubSeq(ds, 1, Len(ds) - 1)) + DigitValue(ds[Len(ds)])

\* the first three decimals of a fraction's digits, as thousandths
FractionValue(ds) ==
    LET d(k) == IF k <= Len(ds) THEN DigitValue(ds[k]) ELSE 0
    IN  100 * d(1) + 10 * d(2) + d(3)

\* parseFloat(s): leading whitespace, a sign, digits, a fraction; what follows
\* the number is ignored; NaN when no digit is found
ParseFloat(str) ==
    LET s     == TrimLeft(str)
        neg   == CharAt(s, 0) = "-"
        i0    == IF CharAt(s, 0) \in {"-", "+"} THEN 1 ELSE 0
        nInt  == DigitRun(s, i0)
        dot   == CharAt(s, i0 + nInt) = "."
        nFrac == IF dot THEN DigitRun(s, i0 + nInt + 1) ELSE 0
        mag   == Scale * DigitsValue(Substring(s, i0, i0 + nInt))
                 + FractionValue(Substring(s, i0 + nInt + 1, i0 + nInt + 1 + nFrac))
    IN  IF nInt + nFrac = 0 THEN NaN
        ELSE IF neg THEN Num(0 - mag) ELSE Num(mag)

\* a * b for two fixed-point numbers
Times(a, b) ==
    LET p == a * b
    IN  IF p < 0 THEN 0 - ((0 - p) \div Scale) ELSE p \div Scale

\* Math.round(c * 255) for a channel c in [0, 1]
RoundChannel(c) == (c * 255 * 2 + Scale) \div (2 * Scale)


(***************************************************************************)
(* Markup Encoder: extractTextNode, buildStyleString, escapeHtml.          *)
(*                                                                         *)
(* A host text node is [characters, segments]; a segment, as returned by   *)
(* getStyledTextSegments, is [start, end, fontName, fontSize, fills,       *)
(* textDecoration, letterSpacing, lineHeight].  A paint is [type, visible, *)
(* color]; a line height of unit AUTO carries no value.                    *)
(***************************************************************************)
Absent == [present |-> FALSE]

escapeHtml(text) ==
    LET a == ReplaceAll(text, <<"&">>, Chars("&amp;"))
        b == ReplaceAll(a, <<"<">>, Chars("&lt;"))
        c == ReplaceAll(b, <<">">>, Chars("&gt;"))
        d == ReplaceAll(c, <<"\"">>, Chars("&quot;"))
    IN  ReplaceAll(d, <<"'">>, Chars("&#039;"))

\* InferWeight with the generic bold check made first
InferWeightBoldFirst(style) ==
    IF Includes(style, Chars("bold")) THEN Chars("700")
    ELSE IF Includes(style, Chars("semibold")) \/ Includes(style, Chars("semi bold"))
    THEN Chars("600")
    ELSE IF Includes(style, Chars("medium")) THEN Chars("500")
    ELSE IF Includes(style, Chars("light")) THEN Chars("300")
    ELSE IF Includes(style, Chars("thin")) THEN Chars("100")
    ELSE IF Includes(style, Chars("black")) \/ Includes(style, Chars("heavy"))
    THEN Chars("900")
    ELSE Chars("400")

\* InferWeight that knows the one-word spelling of semibold only
InferWeightOneWord(style) ==
    IF Includes(style, Chars("semibold")) THEN Chars("600")
    ELSE IF Includes(style, Chars("bold")) THEN Chars("700")
    ELSE IF Includes(style, Chars("medium")) THEN Chars("500")
    ELSE IF Includes(style, Chars("light")) THEN Chars("300")
    ELSE IF Includes(style, Chars("thin")) THEN Chars("100")
    ELSE IF Includes(style, Chars("black")) \/ Includes(style, Chars("heavy"))
    THEN Chars("900")
    ELSE Chars("400")

\* the font-weight the encoder infers from a font style name
InferWeight(style) ==
    IF Includes(style, Chars("semibold")) \/ Includes(style, Chars("semi bold"))
    THEN Chars("600")
    ELSE IF Includes(style, Chars("bold")) THEN Chars("700")
    ELSE IF Includes(style, Chars("medium")) THEN Chars("500")
    ELSE IF Includes(style, Chars("light")) THEN Chars("300")
    ELSE IF Includes(style, Chars("thin")) THEN Chars("100")
    ELSE IF Includes(style, Chars("black")) \/ Includes(style, Chars("heavy"))
    THEN Chars("900")
    ELSE Chars("400")

UnitSuffix(unit) == IF unit = "PERCENT" THEN Chars("%") ELSE Chars("px")

\* a style string with line-height ahead of letter-spacing
buildStyleStringLineHeightFirst(run) ==
    LET style == ToLowerCase(run.font.style)
        parts ==
            << Chars("font-family:") \o run.font.family,
               Chars("font-weight:") \o InferWeight(style) >>
            \o (IF Includes(style, Chars("italic"))
                THEN << Chars("font-style:italic") >> ELSE << >>)
            \o << Chars("font-size:") \o NumberToString(run.fontSize) \o Chars("px") >>
            \o (IF run.fill.present
                THEN << Chars("color:rgb(") \o NatStr(run.fill.r) \o <<",">>
                        \o NatStr(run.fill.g) \o <<",">> \o NatStr(run.fill.b)
                        \o <<")">> >>
                ELSE << >>)
            \o (IF run.textDecoration # Undefined /\ run.textDecoration # Chars("NONE")
                THEN << Chars("text-decoration:")
                        \o ReplaceFirst(ToLowerCase(run.textDecoration), <<"_">>, <<"-">>) >>
                ELSE << >>)
            \o (IF run.lineHeight.present
                THEN << Chars("line-height:")
                        \o NumberToString(run.lineHeight.value)
                        \o UnitSuffix(run.lineHeight.unit) >>
                ELSE << >>)
            \o (IF run.letterSpacing.present
                THEN << Chars("letter-spacing:")
                        \o NumberToString(run.letterSpacing.value)
                        \o UnitSuffix(run.letterSpacing.unit) >>
                ELSE << >>)
    IN  Join(parts, <<";">>)

\* the style attribute of a run's element: the properties joined by ';'
buildStyleString(run) ==
    LET style == ToLowerCase(run.font.style)
        parts ==
            << Chars("font-family:") \o run.font.family,
               Chars("font-weight:") \o InferWeight(style) >>
            \o (IF Includes(style, Chars("italic"))
                THEN << Chars("font-style:italic") >> ELSE << >>)
            \o << Chars("font-size:") \o NumberToString(run.fontSize) \o Chars("px") >>
            \o (IF run.fill.present
                THEN << Chars("color:rgb(") \o NatStr(run.fill.r) \o <<",">>
                        \o NatStr(run.fill.g) \o <<",">> \o NatStr(run.fill.b)
                        \o <<")">> >>
                ELSE << >>)
            \o (IF run.textDecoration # Undefined /\ run.textDecoration # Chars("NONE")
                THEN << Chars("text-decoration:")
                        \o ReplaceFirst(ToLowerCase(run.textDecoration), <<"_">>, <<"-">>) >>
                ELSE << >>)
            \o (IF run.letterSpacing.present
                THEN << Chars("letter-spacing:")
                        \o NumberToString(run.letterSpacing.value)
                        \o UnitSuffix(run.letterSpacing.unit) >>
                ELSE << >>)
            \o (IF run.lineHeight.present
                THEN << Chars("line-height:")
                        \o NumberToString(run.lineHeight.value)
                        \o UnitSuffix(run.lineHeight.unit) >>
                ELSE << >>)
    IN  Join(parts, <<";">>)

\* fills.find((f) => f.type === 'SOLID')
FirstSolid(fills) ==
    IF \E k \in 1..Len(fills) : fills[k].type = "SOLID"
    THEN LET k == CHOOSE k \in 1..Len(fills) :
                    /\ fills[k].type = "SOLID"
                    /\ \A j \in 1..(k - 1) : fills[j].type # "SOLID"
         IN  [present |-> TRUE, paint |-> fills[k]]
    ELSE Absent

\* the StyleRun extractTextNode builds for one host segment
StyleRunOf(characters, segment) ==
    LET solidFill == FirstSolid(segment.fills)
    IN  [ text |-> Substring(characters, segment.start, segment.end),
          font |-> [family |-> segment.fontName.family, style |-> segment.fontName.style],
          fontSize |-> segment.fontSize,
          fill |-> IF solidFill.present /\ solidFill.paint.visible # FALSE
                   THEN [present |-> TRUE,
                         r |-> RoundChannel(solidFill.paint.color.r),
                         g |-> RoundChannel(solidFill.paint.color.g),
                         b |-> RoundChannel(solidFill.paint.color.b)]
                   ELSE Absent,
          textDecoration |-> IF segment.textDecoration # Chars("NONE")
                             THEN segment.textDecoration ELSE Undefined,
          letterSpacing |-> [present |-> TRUE,
                             value |-> segment.letterSpacing.value,
                             unit |-> segment.letterSpacing.unit],
          lineHeight |-> IF segment.lineHeight.unit # "AUTO"
                         THEN [present |-> TRUE,
                               value |-> segment.lineHeight.value,
                               unit |-> segment.lineHeight.unit]
                         ELSE Absent ]

\* escapeHtml(text).replace(/\n/g, '<br/>')
HtmlText(text) == ReplaceAll(escapeHtml(text), <<"\n">>, Chars("<br/>"))

RECURSIVE ExtractLoop(_, _, _, _, _)
ExtractLoop(characters, segs, k, lastEnd, htmlParts) ==
    IF k > Len(segs)
    THEN htmlParts
         \o (IF lastEnd < Len(characters)
             THEN << HtmlText(SubstringFrom(characters, lastEnd)) >>
             ELSE << >>)
    ELSE LET segment == segs[k]
             run     == StyleRunOf(characters, segment)
             gap     == IF segment.start > lastEnd
                        THEN << HtmlText(Substring(characters, lastEnd, segment.start)) >>
                        ELSE << >>
             span    == Chars("<span style=\"") \o buildStyleString(run)
                        \o Chars("\">") \o HtmlText(run.text) \o Chars("</span>")
         IN  ExtractLoop(characters, segs, k + 1, segment.end,
                         htmlParts \o gap \o << span >>)

\* the html of the TextNodeData extractTextNode returns
extractTextNode(textNode) ==
    Concat(ExtractLoop(textNode.characters, textNode.segments, 1, 0, << >>))

(***************************************************************************)
(* Markup Decoder: parseHTML, parseHTMLRecursive, parseStyleString,        *)
(* decodeHTML, extractPlainTextFromHTML.  A decoded segment is             *)
(* [text, styles]; a style the markup does not give is Undefined.          *)
(***************************************************************************)
NoStyles ==
    [ fontFamily |-> Undefined, fontWeight |-> Undefined, fontStyle |-> Undefined,
      fontSize |-> Undefined, color |-> Undefined, textDecoration |-> Undefined,
      letterSpacing |-> Undefined, lineHeight |-> Undefined ]

decodeHTML(text) ==
    LET a == ReplaceAll(text, Chars("&lt;"), <<"<">>)
        b == ReplaceAll(a, Chars("&gt;"), <<">">>)
        c == ReplaceAll(b, Chars("&quot;"), <<"\"">>)
        d == ReplaceAll(c, Chars("&#039;"), <<"'">>)
    IN  ReplaceAll(d, Chars("&amp;"), <<"&">>)

\* the length of the run of whitespace of s starting at offset i
SpaceRun(s, i) == RunOf(s, i, Whitespace, TRUE)

\* the length of the run of characters other than c starting at offset i
RunUntil(s, i, c) == RunOf(s, i, {c}, FALSE)

\* the length of the match of /<br\s*\/?>/i at offset i, 0 when it does not match
BrMatchLen(s, i) ==
    IF ~ StartsWithAt(ToLowerCase(Substring(s, i, i + 3)), 0, Chars("<br")) THEN 0
    ELSE LET j == i + 3 + SpaceRun(s, i + 3)
             k == IF CharAt(s, j) = "/" THEN j + 1 ELSE j
         IN  IF CharAt(s, k) = ">" THEN k + 1 - i ELSE 0

\* html.replace(/<br\s*\/?>/gi, '\n')
RECURSIVE ReplaceBrFrom(_, _)
ReplaceBrFrom(s, i) ==
    LET at == FirstOf({k \in i..(Len(s) - 1) : BrMatchLen(s, k) > 0})
    IN  IF at = -1 THEN SubstringFrom(s, i)
        ELSE Substring(s, i, at) \o <<"\n">> \o ReplaceBrFrom(s, at + BrMatchLen(s, at))

ReplaceBr(s) == ReplaceBrFrom(s, 0)

\* the match of /<span\s+style="([^"]+)">/ that starts at offset j:
\* [found, length, group]
StyleSpanAt(s, j) ==
    LET ws  == SpaceRun(s, j + 5)
        a   == j + 5 + ws
        val == RunUntil(s, a + 7, "\"")
        z   == a + 7 + val
    IN  IF /\ StartsWithAt(s, j, Chars("<span"))
           /\ ws >= 1
           /\ StartsWithAt(s, a, Chars("style=\""))
           /\ val >= 1
           /\ StartsWithAt(s, z, Chars("\">"))
        THEN [found |-> TRUE, length |-> z + 2 - j, group |-> Substring(s, a + 7, z)]
        ELSE [found |-> FALSE, length |-> 0, group |-> << >>]

\* html.substr(i).match(/<span\s+style="([^"]+)">/): the first match at or
\* after offset i (the search is not anchored at i)
StyleSpanMatch(s, i) ==
    LET at == FirstOf({j \in i..(Len(s) - 1) : StyleSpanAt(s, j).found})
    IN  IF at = -1 THEN [found |-> FALSE, length |-> 0, group |-> << >>]
        ELSE StyleSpanAt(s, at)

\* value.replace(/^['"]|['"]$/g, '')
StripQuotes(v) ==
    LET a == IF v # << >> /\ Head(v) \in {"'", "\""} THEN Tail(v) ELSE v
    IN  IF a # << >> /\ a[Len(a)] \in {"'", "\""} THEN SubSeq(a, 1, Len(a) - 1) ELSE a

\* one `key:value` part of a style attribute, applied to the styles so far
ApplyStylePart(styles, part) ==
    LET colonIndex == IndexOf(part, <<":">>, 0)
        key        == Trim(Substring(part, 0, colonIndex))
        value      == Trim(SubstringFrom(part, colonIndex + 1))
    IN  IF colonIndex = -1 THEN styles
        ELSE IF key = << >> \/ value = << >> THEN styles
        ELSE IF key = Chars("font-family")
             THEN [styles EXCEPT !.fontFamily = StripQuotes(value)]
        ELSE IF key = Chars("font-weight") THEN [styles EXCEPT !.fontWeight = value]
        ELSE IF key = Chars("font-style") THEN [styles EXCEPT !.fontStyle = value]
        ELSE IF key = Chars("font-size")
             THEN [styles EXCEPT !.fontSize = ReplaceFirst(value, Chars("px"), << >>)]
        ELSE IF key = Chars("color") THEN [styles EXCEPT !.color = value]
        ELSE IF key = Chars("text-decoration")
             THEN [styles EXCEPT !.textDecoration = value]
        ELSE IF key = Chars("letter-spacing")
             THEN [styles EXCEPT !.letterSpacing = value]
        ELSE IF key = Chars("line-height") THEN [styles EXCEPT !.lineHeight = value]
        ELSE styles

RECURSIVE StyleParts(_, _, _)
StyleParts(parts, k, styles) ==
    IF k > Len(parts) THEN styles
    ELSE StyleParts(parts, k + 1, ApplyStylePart(styles, parts[k]))

parseStyleString(styleString) == StyleParts(Split(styleString, ";"), 1, NoStyles)

\* segments.push({ text: decodeHTML(currentText), styles }) if (currentText)
Flush(segs, currentText, styles) ==
    IF currentText # << >>
    THEN Append(segs, [text |-> decodeHTML(currentText), styles |-> styles])
    ELSE segs

\* an emphasis that leaves a font-style the enclosing element gives
ItalicUnlessStyled(styles) ==
    IF styles.fontStyle = Undefined
    THEN [styles EXCEPT !.fontStyle = Chars("italic")]
    ELSE styles

\* { ...styles, fontStyle: 'italic' }
Italic(styles) == [styles EXCEPT !.fontStyle = Chars("italic")]

\* The loop of parseHTMLRecursive from offset i.  The characters up to the
\* next "<em>" are regular characters, taken in one step.
RECURSIVE RecursiveLoop(_, _, _, _, _)
RecursiveLoop(html, baseStyles, i, currentText, segs) ==
    LET at == IndexOf(html, Chars("<em>"), i)
    IN  IF at = -1
        THEN Flush(segs, currentText \o SubstringFrom(html, i), baseStyles)
        ELSE LET text       == currentText \o Substring(html, i, at)
                 flushed    == Flush(segs, text, baseStyles)
                 closeIndex == IndexOf(html, Chars("</em>"), at + 4)
             IN  IF closeIndex # -1
                 THEN RecursiveLoop(html, baseStyles, closeIndex + 5, << >>,
                          Append(flushed,
                              [text |-> decodeHTML(Substring(html, at + 4, closeIndex)),
                               styles |-> Italic(baseStyles)]))
                 ELSE RecursiveLoop(html, baseStyles, at + 1, <<html[at + 1]>>, flushed)

parseHTMLRecursive(html, baseStyles) ==
    RecursiveLoop(html, baseStyles, 0, << >>, << >>)

\* the <em> branch dropping what follows an <em> that is never closed
EmCloseDrops(html, i, flushed, closeIndex) ==
    IF closeIndex # -1
    THEN [taken |-> TRUE, i |-> closeIndex + 5, text |-> << >>,
          segs |-> Append(flushed,
              [text |-> decodeHTML(Substring(html, i + 4, closeIndex)),
               styles |-> [NoStyles EXCEPT !.fontStyle = Chars("italic")]])]
    ELSE [taken |-> TRUE, i |-> Len(html), text |-> << >>, segs |-> flushed]

\* The <em> branch of parseHTML's loop at offset i, entered with the segments
\* and the accumulated text the <span branch left: [taken, i, segs, text]
EmClose(html, i, flushed, closeIndex) ==
    IF closeIndex # -1
    THEN [taken |-> TRUE, i |-> closeIndex + 5, text |-> << >>,
          segs |-> Append(flushed,
              [text |-> decodeHTML(Substring(html, i + 4, closeIndex)),
               styles |-> Italic(NoStyles)])]
    ELSE [taken |-> FALSE, i |-> i, text |-> << >>, segs |-> flushed]

EmBranch(html, i, currentText, segs) ==
    IF StartsWithAt(html, i, Chars("<em>"))
    THEN EmClose(html, i, Flush(segs, currentText, NoStyles),
                 IndexOf(html, Chars("</em>"), i + 4))
    ELSE [taken |-> FALSE, i |-> i, text |-> currentText, segs |-> segs]

\* The <span branch of parseHTML's loop at offset i: [taken, i, segs, text]
SpanClose(html, i, flushed, styleMatch, tagEnd, closeIndex) ==
    IF styleMatch.found /\ closeIndex # -1
    THEN [taken |-> TRUE, i |-> closeIndex + 7, text |-> << >>,
          segs |-> flushed \o
              parseHTMLRecursive(Substring(html, tagEnd, closeIndex),
                                 parseStyleString(styleMatch.group))]
    ELSE [taken |-> FALSE, i |-> i, text |-> << >>, segs |-> flushed]

SpanTag(html, i, flushed, styleMatch) ==
    SpanClose(html, i, flushed, styleMatch, i + styleMatch.length,
              IndexOf(html, Chars("</span>"), i + styleMatch.length))

SpanBranch(html, i, currentText, segs) ==
    IF StartsWithAt(html, i, Chars("<span"))
    THEN SpanTag(html, i, Flush(segs, currentText, NoStyles), StyleSpanMatch(html, i))
    ELSE [taken |-> FALSE, i |-> i, text |-> currentText, segs |-> segs]

\* The loop of parseHTML from offset i.  The characters up to the next
\* "<span" or "<em>" are regular characters, taken in one step.
RECURSIVE ParseLoop(_, _, _, _)
AfterEm(html, at, em) ==
    IF em.taken THEN ParseLoop(html, em.i, em.text, em.segs)
    ELSE ParseLoop(html, at + 1, Append(em.text, html[at + 1]), em.segs)

AfterSpan(html, at, sp) ==
    IF sp.taken THEN ParseLoop(html, sp.i, sp.text, sp.segs)
    ELSE AfterEm(html, at, EmBranch(html, at, sp.text, sp.segs))

ParseAt(html, i, currentText, segs, at) ==
    IF at = -1
    THEN Flush(segs, currentText \o SubstringFrom(html, i), NoStyles)
    ELSE AfterSpan(html, at,
                   SpanBranch(html, at, currentText \o Substring(html, i, at), segs))

ParseLoop(html, i, currentText, segs) ==
    ParseAt(html, i, currentText, segs,
            FirstOf({k \in i..(Len(html) - 1) :
                        \/ StartsWithAt(html, k, Chars("<span"))
                        \/ StartsWithAt(html, k, Chars("<em>"))}))

parseHTML(html) == ParseLoop(ReplaceBr(html), 0, << >>, << >>)

\* text.replace(/<[^>]+>/g, '')
\* the length of the match of /<[^>]+>/ at offset i, 0 when it does not match
TagMatchLen(s, i) ==
    LET n == RunUntil(s, i + 1, ">")
    IN  IF CharAt(s, i) = "<" /\ n >= 1 /\ CharAt(s, i + 1 + n) = ">"
        THEN n + 2 ELSE 0

RECURSIVE StripTagsFrom(_, _)
StripTagsFrom(s, i) ==
    LET at == FirstOf({k \in i..(Len(s) - 1) : TagMatchLen(s, k) > 0})
    IN  IF at = -1 THEN SubstringFrom(s, i)
        ELSE Substring(s, i, at) \o StripTagsFrom(s, at + TagMatchLen(s, at))

StripTags(s) == StripTagsFrom(s, 0)

extractPlainTextFromHTML(html) == decodeHTML(StripTags(ReplaceBr(html)))

\* the text applyHTMLToTextNode writes: the segments' texts concatenated
RECURSIVE SegmentsText(_)
SegmentsText(segs) ==
    IF segs = << >> THEN << >> ELSE Head(segs).text \o SegmentsText(Tail(segs))

(***************************************************************************)
(* Style Applier, pure part: parseColor, parseLetterSpacing,               *)
(* parseLineHeight, the target font style and the fallback ladder.         *)
(***************************************************************************)
NoColor == [ok |-> FALSE, r |-> 0, g |-> 0, b |-> 0, hasOpacity |-> FALSE, opacity |-> NaN]

\* the match of /rgba?\((\d+),\s*(\d+),\s*(\d+)(?:,\s*([\d.]+))?\)/ that starts
\* at offset j.  The channels are the integers parseInt reads (the code divides
\* each by 255).
ColorOpacity(s, r, g, b, e0, o0, on) ==
    IF CharAt(s, e0) = "," /\ on >= 1 /\ CharAt(s, o0 + on) = ")"
    THEN [ok |-> TRUE, r |-> r, g |-> g, b |-> b, hasOpacity |-> TRUE,
          opacity |-> ParseFloat(Substring(s, o0, o0 + on))]
    ELSE IF CharAt(s, e0) = ")"
    THEN [ok |-> TRUE, r |-> r, g |-> g, b |-> b, hasOpacity |-> FALSE,
          opacity |-> NaN]
    ELSE NoColor

ColorEnd(s, r, g, b, e0, o0) ==
    ColorOpacity(s, r, g, b, e0, o0, RunOf(s, o0, DigitSet \cup {"."}, TRUE))

ColorBlue(s, r, g, b0, bn) ==
    IF bn >= 1
    THEN ColorEnd(s, r, g, DigitsValue(Substring(s, b0, b0 + bn)), b0 + bn,
                  b0 + bn + 1 + SpaceRun(s, b0 + bn + 1))
    ELSE NoColor

ColorBlueAt(s, r, g, b0) == ColorBlue(s, r, g, b0, DigitRun(s, b0))

ColorGreen(s, r, g0, gn) ==
    IF gn >= 1 /\ CharAt(s, g0 + gn) = ","
    THEN ColorBlueAt(s, r, DigitsValue(Substring(s, g0, g0 + gn)),
                     g0 + gn + 1 + SpaceRun(s, g0 + gn + 1))
    ELSE NoColor

ColorGreenAt(s, r, g0) == ColorGreen(s, r, g0, DigitRun(s, g0))

ColorRed(s, r0, rn) ==
    IF rn >= 1 /\ CharAt(s, r0 + rn) = ","
    THEN ColorGreenAt(s, DigitsValue(Substring(s, r0, r0 + rn)),
                      r0 + rn + 1 + SpaceRun(s, r0 + rn + 1))
    ELSE NoColor

ColorOpen(s, p0) ==
    IF CharAt(s, p0) = "(" THEN ColorRed(s, p0 + 1, DigitRun(s, p0 + 1)) ELSE NoColor

ColorAt(s, j) ==
    IF StartsWithAt(s, j, Chars("rgb"))
    THEN ColorOpen(s, j + 3 + (IF CharAt(s, j + 3) = "a" THEN 1 ELSE 0))
    ELSE NoColor

ColorFrom(s, at) == IF at = -1 THEN NoColor ELSE ColorAt(s, at)

parseColor(colorStr) ==
    ColorFrom(colorStr,
              FirstOf({j \in 0..(Len(colorStr) - 1) : ColorAt(colorStr, j).ok}))

\* a font size the caller may not know: [present, value]
NoSize == [present |-> FALSE, value |-> 0]

SizeOf(v) == [present |-> TRUE, value |-> v]

\* if (fontSize): defined and not zero
Truthy(fontSize) == fontSize.present /\ fontSize.value # 0

NoUnitValue == [ok |-> FALSE, value |-> NaN, unit |-> "NONE"]

\* value * factor for what parseFloat returned
Scaled(num, factor) == IF num.isNaN THEN NaN ELSE Num(Times(num.value, factor))

parseLetterSpacing(lsStr, fontSize) ==
    IF EndsWith(lsStr, Chars("%"))
    THEN [ok |-> TRUE, value |-> ParseFloat(lsStr), unit |-> "PERCENT"]
    ELSE IF EndsWith(lsStr, Chars("em"))
    THEN IF Truthy(fontSize)
         THEN [ok |-> TRUE, value |-> Scaled(ParseFloat(lsStr), fontSize.value),
               unit |-> "PIXELS"]
         ELSE [ok |-> TRUE, value |-> Scaled(ParseFloat(lsStr), 16 * Scale),
               unit |-> "PIXELS"]
    ELSE IF EndsWith(lsStr, Chars("px"))
    THEN [ok |-> TRUE, value |-> ParseFloat(lsStr), unit |-> "PIXELS"]
    ELSE NoUnitValue

\* a variant that never uses the font size: unitless is always percent
parseLineHeightPercent(lhStr, fontSize) ==
    LET numValue == ParseFloat(lhStr)
    IN  IF EndsWith(lhStr, Chars("%"))
        THEN [ok |-> TRUE, value |-> ParseFloat(lhStr), unit |-> "PERCENT"]
        ELSE IF EndsWith(lhStr, Chars("px"))
        THEN [ok |-> TRUE, value |-> ParseFloat(lhStr), unit |-> "PIXELS"]
        ELSE IF ~ numValue.isNaN
        THEN [ok |-> TRUE, value |-> Scaled(numValue, 100 * Scale), unit |-> "PERCENT"]
        ELSE NoUnitValue

parseLineHeight(lhStr, fontSize) ==
    LET numValue == ParseFloat(lhStr)
    IN  IF EndsWith(lhStr, Chars("%"))
        THEN [ok |-> TRUE, value |-> ParseFloat(lhStr), unit |-> "PERCENT"]
        ELSE IF EndsWith(lhStr, Chars("px"))
        THEN [ok |-> TRUE, value |-> ParseFloat(lhStr), unit |-> "PIXELS"]
        ELSE IF ~ numValue.isNaN /\ Truthy(fontSize)
        THEN [ok |-> TRUE, value |-> Scaled(numValue, fontSize.value), unit |-> "PIXELS"]
        ELSE IF ~ numValue.isNaN
        THEN [ok |-> TRUE, value |-> Scaled(numValue, 100 * Scale), unit |-> "PERCENT"]
        ELSE NoUnitValue

\* segment.styles.textDecoration.toUpperCase().replace('-', '_')
DecorationOf(textDecoration) ==
    ReplaceFirst(ToUpperCase(textDecoration), <<"-">>, <<"_">>)

\* the font style the applier asks for, given the weight and italic of a
\* segment and the style the range has now
TargetStyle(weight, isItalic, currentStyle) ==
    IF weight \in {Chars("900"), Chars("black")}
    THEN IF isItalic THEN Chars("Black Italic") ELSE Chars("Black")
    ELSE IF weight \in {Chars("700"), Chars("bold")}
    THEN IF isItalic THEN Chars("Bold Italic") ELSE Chars("Bold")
    ELSE IF weight \in {Chars("600"), Chars("semibold")}
    THEN IF isItalic THEN Chars("Semi Bold Italic") ELSE Chars("Semi Bold")
    ELSE IF weight \in {Chars("500"), Chars("medium")}
    THEN IF isItalic THEN Chars("Medium Italic") ELSE Chars("Medium")
    ELSE IF weight \in {Chars("400"), Chars("normal"), Chars("regular")}
    THEN IF isItalic THEN Chars("Italic") ELSE Chars("Regular")
    ELSE IF weight \in {Chars("300"), Chars("light")}
    THEN IF isItalic THEN Chars("Light Italic") ELSE Chars("Light")
    ELSE IF isItalic THEN Chars("Italic")
    ELSE currentStyle

(***************************************************************************)
(* State.                                                                  *)
(*                                                                         *)
(* Codec: the text node an export reads (hostNode), the markup exchanged   *)
(* with the translation service, and what the decoder makes of it.  The    *)
(* markup comes from the encoder (origin "encoder") or from the service's  *)
(* response (origin "service").                                            *)
(***************************************************************************)
VARIABLES origin, hostNode, markup, encoded, decoded, plainText

\* Style Applier: the call being run (job), where it is (pc, cursor), the
\* decoded segments, the text node, and the record of font loads and of
\* range setters called
VARIABLES job, pc, segs, cursor, node, loads, attempts

\* Export and review: the document and what the user ticked (doc), the run
\* (phase, languages, textNodes, mapIdx), each language's callback (lp), the
\* requests sent (sentBy), the duplicate frames, the review state, the
\* messages posted to the UI, the UI's copy of the presented items, the
\* upload in flight, the uploads that succeeded, the page selection, and the
\* translation object of the last apply-changes message as its handler left
\* it, and the text nodes of the frame the user selected
VARIABLES doc, phase, languages, textNodes, mapIdx, lp, sentBy, frames,
          duplicatedFrames, pendingReviews, nodeIdMappings, languageOrder, posted,
          ui, upload, uploaded, selected, lastChange, original

\* Image export: the bytes of the exported PNG and their Base64 text
VARIABLES imageBytes, frameImageBase64

codecVars == <<origin, hostNode, markup, encoded, decoded, plainText>>

applierVars == <<job, pc, segs, cursor, node, loads, attempts>>

reviewState == <<duplicatedFrames, pendingReviews, nodeIdMappings, languageOrder>>

flowVars == <<doc, phase, languages, textNodes, mapIdx, lp, sentBy, frames,
              reviewState, posted, ui, upload, uploaded, selected, lastChange,
              original>>

imageVars == <<imageBytes, frameImageBase64>>

vars == <<codecVars, applierVars, flowVars, imageVars>>

NotYet == [done |-> FALSE, value |-> << >>]

Done(v) == [done |-> TRUE, value |-> v]

(***************************************************************************)
(* The text nodes an export may read.  Each is built from at most MaxRuns  *)
(* pieces drawn from NumPieces samples; a sample takes its text, font,     *)
(* size, fills, decoration, letter spacing and line height from the pools  *)
(* below.  A font carries, beside the name the host reports, the weight    *)
(* and slant it has in the canonical table.  A piece marked as a gap is a  *)
(* character range the host iterator leaves out.                           *)
(***************************************************************************)
MaxRuns == 2

NumPieces == 10

TextPool ==
    << Chars("Hello "), Chars("a&b"), Chars("<em>"), Chars("x\ny"), Chars("&lt;"),
       Chars("\"q'"), Chars(" ") >>

FontPool ==
    << [family |-> Chars("Inter"), style |-> Chars("Regular"), weight |-> 400, italic |-> FALSE],
       [family |-> Chars("Inter"), style |-> Chars("Semi Bold"), weight |-> 600, italic |-> FALSE],
       [family |-> Chars("Open Sans"), style |-> Chars("SemiBold Italic"), weight |-> 600, italic |-> TRUE],
       [family |-> Chars("Inter"), style |-> Chars("Bold"), weight |-> 700, italic |-> FALSE],
       [family |-> Chars("Inter"), style |-> Chars("Italic"), weight |-> 400, italic |-> TRUE],
       [family |-> Chars("Inter"), style |-> Chars("Light Italic"), weight |-> 300, italic |-> TRUE],
       [family |-> Chars("Inter"), style |-> Chars("Medium"), weight |-> 500, italic |-> FALSE],
       [family |-> Chars("Inter"), style |-> Chars("Thin"), weight |-> 100, italic |-> FALSE],
       [family |-> Chars("Inter"), style |-> Chars("Black"), weight |-> 900, italic |-> FALSE] >>

SizePool == << 16 * Scale, 12 * Scale + 500, 20 * Scale >>

\* a solid paint of 8-bit colour (r8, g8, b8); the host reports channels in [0, 1]
Channel(c8) == (c8 * Scale * 2 + 255) \div (2 * 255)

Solid(r8, g8, b8, visible) ==
    [type |-> "SOLID", visible |-> visible,
     color |-> [r |-> Channel(r8), g |-> Channel(g8), b |-> Channel(b8)]]

Gradient == [type |-> "GRADIENT_LINEAR", visible |-> TRUE,
             color |-> [r |-> 0, g |-> 0, b |-> 0]]

FillsPool ==
    << << Solid(255, 128, 0, TRUE) >>,
       << >>,
       << Gradient, Solid(18, 52, 86, TRUE) >>,
       << Solid(0, 0, 0, FALSE) >>,
       << Solid(1, 2, 3, TRUE), Solid(9, 9, 9, TRUE) >>,
       << Solid(0, 0, 0, FALSE), Solid(200, 10, 10, TRUE) >> >>

DecorationPool == << Chars("NONE"), Chars("UNDERLINE"), Chars("STRIKETHROUGH") >>

LetterSpacingPool ==
    << [value |-> 0, unit |-> "PERCENT"], [value |-> 0 - 400, unit |-> "PIXELS"],
       [value |-> 5 * Scale, unit |-> "PERCENT"], [value |-> 2 * Scale, unit |-> "PIXELS"] >>

LineHeightPool ==
    << [unit |-> "AUTO", value |-> 0], [unit |-> "PERCENT", value |-> 120 * Scale],
       [unit |-> "PIXELS", value |-> 23 * Scale + 600] >>

Pick(pool, k) == pool[((k - 1) % Len(pool)) + 1]

\* the k-th sample piece
Piece(k) ==
    [ text |-> Pick(TextPool, k),
      gap |-> (k % 5 = 0),
      font |-> Pick(FontPool, k),
      fontSize |-> Pick(SizePool, k),
      fills |-> Pick(FillsPool, k),
      textDecoration |-> Pick(DecorationPool, k),
      letterSpacing |-> Pick(LetterSpacingPool, k),
      lineHeight |-> Pick(LineHeightPool, k) ]

PieceSeqs == UNION {[1..n -> 1..NumPieces] : n \in 0..MaxRuns}

\* the offset at which piece k of a sequence of piece numbers starts
RECURSIVE OffsetOf(_, _)
OffsetOf(ks, k) ==
    IF k = 1 THEN 0 ELSE OffsetOf(ks, k - 1) + Len(Piece(ks[k - 1]).text)

\* the segment getStyledTextSegments reports for the styled piece k
SegmentOf(ks, k) ==
    LET piece == Piece(ks[k])
    IN  [ start |-> OffsetOf(ks, k), end |-> OffsetOf(ks, k) + Len(piece.text),
          fontName |-> [family |-> piece.font.family, style |-> piece.font.style],
          face |-> [weight |-> piece.font.weight, italic |-> piece.font.italic],
          fontSize |-> piece.fontSize, fills |-> piece.fills,
          textDecoration |-> piece.textDecoration,
          letterSpacing |-> piece.letterSpacing, lineHeight |-> piece.lineHeight ]

RECURSIVE SegmentsFrom(_, _)
SegmentsFrom(ks, k) ==
    IF k > Len(ks) THEN << >>
    ELSE (IF Piece(ks[k]).gap THEN << >> ELSE << SegmentOf(ks, k) >>)
         \o SegmentsFrom(ks, k + 1)

TextNodeOf(ks) ==
    [ characters |-> Concat([k \in 1..Len(ks) |-> Piece(ks[k]).text]),
      segments |-> SegmentsFrom(ks, 1) ]

NoNode == [characters |-> << >>, segments |-> << >>]

(***************************************************************************)
(* The markup a translation response may carry: at most MaxTokens tokens   *)
(* of literal text, entities and tags.                                     *)
(***************************************************************************)
MaxTokens == 3

TokenPool ==
    << Chars("Hola"), Chars("&amp;"), Chars("<span style=\"font-weight:700\">"),
       Chars("<span>"), Chars("</span>"), Chars("<em>"), Chars("</em>"),
       Chars("<br/>"), Chars("&lt;") >>

TokenSeqs == UNION {[1..n -> 1..Len(TokenPool)] : n \in 0..MaxTokens}

MarkupOf(ts) == Concat([k \in 1..Len(ts) |-> TokenPool[ts[k]]])

\* style elements that hold an emphasis element: the style attribute, the
\* text before, inside and after the emphasis, and what each of them stands
\* for once its entities and line breaks are decoded
NestedPool ==
    << [style |-> Chars("font-weight:700;font-style:normal;color:red"),
        styles |-> [NoStyles EXCEPT !.fontWeight = Chars("700"),
                                    !.fontStyle = Chars("normal"),
                                    !.color = Chars("red")],
        before |-> Chars("a &amp; "), inner |-> Chars("b"), after |-> Chars(" c"),
        texts |-> << Chars("a & "), Chars("b"), Chars(" c") >>],
       [style |-> Chars("font-size:20px"),
        styles |-> [NoStyles EXCEPT !.fontSize = Chars("20")],
        before |-> << >>, inner |-> Chars("&lt;x"), after |-> Chars("y<br/>"),
        texts |-> << << >>, Chars("<x"), Chars("y\n") >>],
       [style |-> Chars("color:blue"),
        styles |-> [NoStyles EXCEPT !.color = Chars("blue")],
        before |-> Chars("p"), inner |-> << >>, after |-> << >>,
        texts |-> << Chars("p"), << >>, << >> >>] >>

NestedMarkup(n) ==
    Chars("<span style=\"") \o n.style \o Chars("\">") \o n.before
    \o Chars("<em>") \o n.inner \o Chars("</em>") \o n.after \o Chars("</span>")

(***************************************************************************)
(* Codec operations.                                                       *)
(***************************************************************************)
CodecStart ==
    /\ encoded = FALSE
    /\ decoded = NotYet
    /\ plainText = NotYet
    /\ \/ /\ origin = "encoder"
          /\ \E ks \in PieceSeqs : hostNode = TextNodeOf(ks)
          /\ markup = << >>
       \/ /\ origin = "service"
          /\ hostNode = NoNode
          /\ \/ \E ts \in TokenSeqs : markup = MarkupOf(ts)
             \/ \E k \in 1..Len(NestedPool) : markup = NestedMarkup(NestedPool[k])

\* the codec at rest, in the runs that are about another component
CodecIdle ==
    /\ origin = "none"
    /\ hostNode = NoNode
    /\ markup = << >>
    /\ encoded = FALSE
    /\ decoded = NotYet
    /\ plainText = NotYet

\* extractNodes -> extractTextNode: the export encodes the text node
Encode ==
    /\ origin = "encoder"
    /\ ~ encoded
    /\ markup' = extractTextNode(hostNode)
    /\ encoded' = TRUE
    /\ UNCHANGED <<origin, hostNode, decoded, plainText, applierVars, flowVars, imageVars>>

\* applyHTMLToTextNode -> parseHTML: the markup is decoded into segments
Decode ==
    /\ origin = "service" \/ encoded
    /\ ~ decoded.done
    /\ decoded' = Done(parseHTML(markup))
    /\ UNCHANGED <<origin, hostNode, markup, encoded, plainText, applierVars, flowVars,
                   imageVars>>

\* the review item's charactersTranslated: extractPlainTextFromHTML(t.html)
PlainText ==
    /\ origin = "service" \/ encoded
    /\ ~ plainText.done
    /\ plainText' = Done(extractPlainTextFromHTML(markup))
    /\ UNCHANGED <<origin, hostNode, markup, encoded, decoded, applierVars, flowVars,
                   imageVars>>

(***************************************************************************)
(* Style Applier: applyHTMLToTextNode run on one text node.                *)
(*                                                                         *)
(* The host is the environment: a font loads when the document's font      *)
(* catalog has it, a range setter may reject the value it is given (the    *)
(* set job.rejects names the setters that do), and a node whose ranges     *)
(* carry different fonts and sizes reports figma.mixed for them.           *)
(***************************************************************************)
Font(family, style) == [family |-> Chars(family), style |-> Chars(style)]

InterStyles ==
    {"Regular", "Italic", "Light", "Light Italic", "Medium", "Medium Italic",
     "Semi Bold", "Semi Bold Italic", "Bold", "Bold Italic", "Black", "Black Italic"}

\* the hosts the applier runs against: the fonts that load, the node's font
\* and size, whether its ranges are mixed, the setters that reject
HostPool ==
    << [catalog |-> {Font("Inter", st) : st \in InterStyles} \cup {Font("Roboto", "Regular")},
        font |-> Font("Inter", "Regular"), size |-> 12 * Scale, mixed |-> FALSE,
        rejects |-> {}],
       [catalog |-> {Font("Inter", "Regular"), Font("Inter", "Italic"), Font("Inter", "Bold")},
        font |-> Font("Inter", "Regular"), size |-> 12 * Scale, mixed |-> FALSE,
        rejects |-> {}],
       [catalog |-> {Font("Inter", "Regular"), Font("Inter", "Bold")},
        font |-> Font("Inter", "Regular"), size |-> 12 * Scale, mixed |-> TRUE,
        rejects |-> {}],
       [catalog |-> {Font("Inter", "Regular")},
        font |-> Font("Inter", "Regular"), size |-> 12 * Scale, mixed |-> FALSE,
        rejects |-> {"size"}],
       [catalog |-> {Font("Inter", "Light"), Font("Roboto", "Light")},
        font |-> Font("Inter", "Light"), size |-> 16 * Scale, mixed |-> FALSE,
        rejects |-> {}],
       [catalog |-> {Font("Inter", st) : st \in InterStyles},
        font |-> Font("Inter", "Italic"), size |-> 12 * Scale, mixed |-> FALSE,
        rejects |-> {"letterSpacing"}],
       [catalog |-> {Font("Inter", "Regular"), Font("Inter", "Medium Italic"),
                     Font("Inter", "SemiBold")},
        font |-> Font("Inter", "Regular"), size |-> 12 * Scale, mixed |-> FALSE,
        rejects |-> {"color"}],
       [catalog |-> {Font("Inter", "Bold")},
        font |-> Font("Inter", "Regular"), size |-> 12 * Scale, mixed |-> FALSE,
        rejects |-> {}] >>

\* the pieces of the markup a translation response may carry for the node
MaxSpans == 2

SpanPool ==
    << Chars("<span style=\"font-weight:900;font-style:italic\">Ab</span>"),
       Chars("<span style=\"font-family:Inter;font-weight:700;font-size:20px;color:rgb(16, 32, 48);text-decoration:underline;letter-spacing:2px;line-height:1.5\">Cd</span>"),
       Chars("<span style=\"font-weight:600\">E</span>"),
       Chars("plain "),
       Chars("<span style=\"font-family:Roboto;font-size:16px;letter-spacing:-0.025em\">Fg</span>"),
       Chars("<em>Hi</em>"),
       Chars("<span style=\"line-height:1.5em;color:red;text-decoration:line-through\">J</span>"),
       Chars("<span style=\"font-weight:300;font-style:italic;line-height:120%\">K</span>"),
       Chars("<span style=\"font-weight:100\">T</span>"),
       Chars("<span style=\"font-size:20px;line-height:1.18\">Lm</span>"),
       Chars("<span style=\"line-height:1.18;letter-spacing:-0.025em\">No</span>"),
       Chars("<span style=\"font-size:large;line-height:2;letter-spacing:2pt\">P</span>"),
       Chars("<em></em><span style=\"font-weight:600;color:red\">Q</span>") >>

SpanSeqs == UNION {[1..n -> 1..Len(SpanPool)] : n \in 1..MaxSpans}

HtmlOf(ks) == Concat([i \in 1..Len(ks) |-> SpanPool[ks[i]]])

NoJob == [html |-> << >>, host |-> 0]

NoCursor == [idx |-> 0, start |-> 0, end |-> 0, fontSize |-> NoSize]

NoTextNode == [characters |-> << >>, fonts |-> << >>]

ApplierStart ==
    /\ \E ks \in SpanSeqs : \E h \in 1..Len(HostPool) :
           job = [html |-> HtmlOf(ks), host |-> h]
    /\ pc = "begin"
    /\ segs = << >>
    /\ cursor = NoCursor
    /\ node = NoTextNode
    /\ loads = << >>
    /\ attempts = << >>

\* the applier at rest, in the runs that are about another component
ApplierIdle ==
    /\ job = NoJob
    /\ pc = "idle"
    /\ segs = << >>
    /\ cursor = NoCursor
    /\ node = NoTextNode
    /\ loads = << >>
    /\ attempts = << >>

Host == HostPool[job.host]

\* figma.loadFontAsync resolves
Loads(font) == font \in Host.catalog

\* the host rejects what the setter of this property is given
Rejects(prop) == prop \in Host.rejects

\* the font of the node before the call: textNode.fontName, or, when that is
\* figma.mixed, the font of the first character
originalFont == Host.font

\* the fonts of the characters after textNode.characters = newText
FreshFonts(n) ==
    [i \in 1..n |-> IF Host.mixed /\ i % 2 = 0
                    THEN [family |-> Host.font.family, style |-> Chars("Bold")]
                    ELSE Host.font]

Mixed == [family |-> << >>, style |-> << >>]

\* textNode.getRangeFontName(start, end)
getRangeFontName(n, start, end) ==
    IF \A i \in (start + 1)..end : n.fonts[i] = n.fonts[start + 1]
    THEN n.fonts[start + 1]
    ELSE Mixed

\* textNode.setRangeFontName(start, end, font)
setRangeFontName(n, start, end, font) ==
    [n EXCEPT !.fonts = [i \in 1..Len(n.fonts) |->
                            IF start < i /\ i <= end THEN font ELSE n.fonts[i]]]

\* a loop that does not skip the segments with end <= start
NextSegmentWithEmpty(ss, k, position) ==
    IF k > Len(ss)
    THEN [idx |-> k, start |-> position, end |-> position, fontSize |-> NoSize]
    ELSE [idx |-> k, start |-> position, end |-> position + Len(ss[k].text),
          fontSize |-> NoSize]

\* the for loop's next segment with end > start, and its range
RECURSIVE NextSegment(_, _, _)
NextSegment(ss, k, position) ==
    IF k > Len(ss)
    THEN [idx |-> k, start |-> position, end |-> position, fontSize |-> NoSize]
    ELSE IF position + Len(ss[k].text) <= position
    THEN NextSegment(ss, k + 1, position)
    ELSE [idx |-> k, start |-> position, end |-> position + Len(ss[k].text),
          fontSize |-> NoSize]

Styles == segs[cursor.idx].styles

\* a range setter was called for a property of the current segment
Attempt(prop, ok, value) ==
    [seg |-> cursor.idx, prop |-> prop, start |-> cursor.start, end |-> cursor.end,
     ok |-> ok, value |-> value]

\* a range setter is called: it sets the range and the loop goes on, or it
\* throws, and the exception leaves applyHTMLToTextNode
CallSetter(prop, value, nextPc) ==
    IF Rejects(prop)
    THEN /\ attempts' = Append(attempts, Attempt(prop, FALSE, value))
         /\ pc' = "aborted"
    ELSE /\ attempts' = Append(attempts, Attempt(prop, TRUE, value))
         /\ pc' = nextPc

\* what Begin does once the markup is parsed
BeginWith(segments, newText, first) ==
    /\ segs' = segments
    /\ loads' = << [seg |-> 0, font |-> originalFont, ok |-> Loads(originalFont)] >>
    /\ IF Loads(originalFont)
       THEN /\ node' = [characters |-> newText, fonts |-> FreshFonts(Len(newText))]
            /\ cursor' = first
            /\ pc' = IF first.idx > Len(segments) THEN "done" ELSE "font"
       ELSE \* the host refuses to set the text of a node whose font is not
            \* loaded
            /\ node' = NoTextNode
            /\ cursor' = NoCursor
            /\ pc' = "aborted"

BeginParsed(segments) ==
    BeginWith(segments, SegmentsText(segments), NextSegment(segments, 1, 0))

\* parse, load the original font, set the characters
Begin ==
    /\ pc = "begin"
    /\ BeginParsed(parseHTML(job.html))
    /\ UNCHANGED <<job, attempts, codecVars, flowVars, imageVars>>

\* Alternatives with the upright styles ahead of the italic ones
AlternativesUprightFirst(isItalic) ==
    IF isItalic
    THEN << Chars("Bold"), Chars("SemiBold"), Chars("Semi Bold"), Chars("Medium"),
            Chars("Regular"), Chars("Bold Italic"), Chars("SemiBold Italic"),
            Chars("Semi Bold Italic"), Chars("Medium Italic"), Chars("Italic") >>
    ELSE << Chars("Bold"), Chars("SemiBold"), Chars("Semi Bold"), Chars("Medium"),
            Chars("Regular") >>

\* the fallback styles tried when the target style does not load
Alternatives(isItalic) ==
    IF isItalic
    THEN << Chars("Bold Italic"), Chars("SemiBold Italic"), Chars("Semi Bold Italic"),
            Chars("Medium Italic"), Chars("Italic"), Chars("Bold"), Chars("SemiBold"),
            Chars("Semi Bold"), Chars("Medium"), Chars("Regular") >>
    ELSE << Chars("Bold"), Chars("SemiBold"), Chars("Semi Bold"), Chars("Medium"),
            Chars("Regular") >>

\* the loads the fallback loop makes from alternative i on: it stops at the
\* first that resolves
RECURSIVE FallbackLoads(_, _, _)
FallbackLoads(family, alternatives, i) ==
    IF i > Len(alternatives) THEN << >>
    ELSE LET font == [family |-> family, style |-> alternatives[i]]
         IN  IF Loads(font)
             THEN << [seg |-> cursor.idx, font |-> font, ok |-> TRUE] >>
             ELSE << [seg |-> cursor.idx, font |-> font, ok |-> FALSE] >>
                  \o FallbackLoads(family, alternatives, i + 1)

\* font family, weight and style of the current segment
ApplyFont ==
    /\ pc = "font"
    /\ IF Styles.fontFamily # Undefined \/ Styles.fontWeight # Undefined
          \/ Styles.fontStyle # Undefined
       THEN LET currentFont  == getRangeFontName(node, cursor.start, cursor.end)
                fontName     == IF currentFont = Mixed THEN originalFont ELSE currentFont
                family       == IF Styles.fontFamily # Undefined
                                THEN Styles.fontFamily ELSE fontName.family
                currentStyle == fontName.style
                isItalic     == Styles.fontStyle = Chars("italic")
                targetStyle  == TargetStyle(Styles.fontWeight, isItalic, currentStyle)
                target       == [family |-> family, style |-> targetStyle]
                tried        == << [seg |-> cursor.idx, font |-> target,
                                    ok |-> Loads(target)] >>
                                \o (IF Loads(target) THEN << >>
                                    ELSE FallbackLoads(family, Alternatives(isItalic), 1))
                last         == tried[Len(tried)]
            IN  IF family # fontName.family \/ targetStyle # currentStyle
                THEN /\ loads' = loads \o tried
                     /\ IF last.ok
                        THEN /\ node' = setRangeFontName(node, cursor.start, cursor.end,
                                                         last.font)
                             /\ attempts' = Append(attempts,
                                                   Attempt("font", TRUE, last.font))
                        ELSE UNCHANGED <<node, attempts>>
                ELSE UNCHANGED <<node, loads, attempts>>
       ELSE UNCHANGED <<node, loads, attempts>>
    /\ pc' = "size"
    /\ UNCHANGED <<job, segs, cursor, codecVars, flowVars, imageVars>>

\* font size of the current segment, and the size the unit conversions use
ApplySize ==
    /\ pc = "size"
    /\ IF Styles.fontSize # Undefined
       THEN LET size == ParseFloat(Styles.fontSize)
            IN  IF ~ size.isNaN
                THEN /\ CallSetter("size", size, "color")
                     /\ cursor' = IF Rejects("size") THEN cursor
                                  ELSE [cursor EXCEPT !.fontSize = SizeOf(size.value)]
                ELSE /\ pc' = "color"
                     /\ UNCHANGED <<attempts, cursor>>
       ELSE /\ cursor' = [cursor EXCEPT !.fontSize =
                             IF Host.mixed /\ cursor.end - cursor.start > 1
                             THEN NoSize ELSE SizeOf(Host.size)]
            /\ pc' = "color"
            /\ UNCHANGED attempts
    /\ UNCHANGED <<job, segs, node, loads, codecVars, flowVars, imageVars>>

\* fill colour of the current segment
ApplyColor ==
    /\ pc = "color"
    /\ LET colorData == IF Styles.color # Undefined THEN parseColor(Styles.color)
                        ELSE NoColor
       IN  IF colorData.ok
           THEN CallSetter("color", colorData, "decoration")
           ELSE /\ pc' = "decoration"
                /\ UNCHANGED attempts
    /\ UNCHANGED <<job, segs, cursor, node, loads, codecVars, flowVars, imageVars>>

\* text decoration of the current segment
ApplyDecoration ==
    /\ pc = "decoration"
    /\ LET decoration == DecorationOf(Styles.textDecoration)
       IN  IF /\ Styles.textDecoration # Undefined
              /\ decoration \in {Chars("UNDERLINE"), Chars("STRIKETHROUGH")}
           THEN CallSetter("decoration", decoration, "letterSpacing")
           ELSE /\ pc' = "letterSpacing"
                /\ UNCHANGED attempts
    /\ UNCHANGED <<job, segs, cursor, node, loads, codecVars, flowVars, imageVars>>

\* letter spacing of the current segment
ApplyLetterSpacing ==
    /\ pc = "letterSpacing"
    /\ LET ls == IF Styles.letterSpacing # Undefined
                 THEN parseLetterSpacing(Styles.letterSpacing, cursor.fontSize)
                 ELSE NoUnitValue
       IN  IF ls.ok
           THEN CallSetter("letterSpacing", ls, "lineHeight")
           ELSE /\ pc' = "lineHeight"
                /\ UNCHANGED attempts
    /\ UNCHANGED <<job, segs, cursor, node, loads, codecVars, flowVars, imageVars>>

\* line height of the current segment; then the loop moves to the next one
ApplyLineHeight ==
    /\ pc = "lineHeight"
    /\ LET lh     == IF Styles.lineHeight # Undefined
                     THEN parseLineHeight(Styles.lineHeight, cursor.fontSize)
                     ELSE NoUnitValue
           next   == NextSegment(segs, cursor.idx + 1, cursor.end)
           nextPc == IF next.idx > Len(segs) THEN "done" ELSE "font"
       IN  IF lh.ok
           THEN /\ CallSetter("lineHeight", lh, nextPc)
                /\ cursor' = IF Rejects("lineHeight") THEN cursor ELSE next
           ELSE /\ pc' = nextPc
                /\ cursor' = next
                /\ UNCHANGED attempts
    /\ UNCHANGED <<job, segs, node, loads, codecVars, flowVars, imageVars>>

(***************************************************************************)
(* Export and review: the figma.ui.onmessage handler.                      *)
(*                                                                         *)
(* The frame has doc.units text nodes with ids 1..doc.units; the duplicate *)
(* made for a language has as many, in the same traversal order.  An async *)
(* function runs without interruption up to its next await, so each action *)
(* is one such stretch.  The translation service, the upload endpoint and  *)
(* the host are the environment.  The review UI follows its protocol: it   *)
(* sends highlight-node, apply-changes and upload-translations for the     *)
(* language of the last load-review it received, one upload at a time.     *)
(***************************************************************************)
MAX_PAYLOAD_SIZE == 5 * 1024 * 1024

CHUNK_SIZE == 200

LangPool == << "es", "fr", "de" >>

LangSet == {LangPool[i] : i \in 1..Len(LangPool)}

\* what the export message carries in msg.languages: nothing, or the first k
\* of the languages the UI offers
LanguageChoices ==
    {[given |-> FALSE, list |-> << >>]}
    \cup {[given |-> TRUE, list |-> SubSeq(LangPool, 1, k)] : k \in 0..Len(LangPool)}

\* array.slice(from, to)
Slice(s, from, to) == SubSeq(s, from + 1, Min(to, Len(s)))

\* Chunks with every batch one unit longer than the step
RECURSIVE ChunksOverlappingFrom(_, _)
ChunksOverlappingFrom(texts, i) ==
    IF i < Len(texts)
    THEN << Slice(texts, i, i + CHUNK_SIZE + 1) >>
         \o ChunksOverlappingFrom(texts, i + CHUNK_SIZE)
    ELSE << >>

ChunksOverlapping(texts) == ChunksOverlappingFrom(texts, 0)

\* for (let i = 0; i < textNodes.length; i += CHUNK_SIZE) chunks.push(slice)
RECURSIVE ChunksFrom(_, _)
ChunksFrom(texts, i) ==
    IF i < Len(texts)
    THEN << Slice(texts, i, i + CHUNK_SIZE) >> \o ChunksFrom(texts, i + CHUNK_SIZE)
    ELSE << >>

Chunks(texts) == ChunksFrom(texts, 0)

NoChunk == [index |-> 0, total |-> 0]

\* the payload of a translation request
Request(lang, texts, chunk) == [lang |-> lang, texts |-> texts, chunk |-> chunk]

\* the text a node of the frame has
OriginalCharacters(nodeId) == IF nodeId = 1 THEN Chars("Yes") ELSE Chars("No & no")

\* an entry of the texts array of a translation response
Text(nodeId, isNew, html) ==
    [nodeId |-> nodeId, isNew |-> isNew, characters |-> OriginalCharacters(nodeId),
     html |-> Chars(html)]

\* the html of an entry that has no html field
NoMarkup == << "undefined" >>

\* an entry of a texts array that lacks its html
TextWithoutHtml(nodeId, isNew) ==
    [nodeId |-> nodeId, isNew |-> isNew, characters |-> OriginalCharacters(nodeId),
     html |-> NoMarkup]

\* the texts arrays the translation service may answer with
TextsPool ==
    << << Text(1, FALSE, "<em>Si</em>"), Text(2, TRUE, "<span style=\"color:red\">No</span><span style=\"font-weight:700\"> y no</span>") >>,
       << Text(1, FALSE, "<em>Si</em>") >>,
       << Text(2, TRUE, "No &amp; no"), Text(1, TRUE, "<span>Si</span>") >>,
       << TextWithoutHtml(1, FALSE) >> >>

\* the language codes the service may answer with that are not the one asked
\* for: a regional code, for Spanish
Regional(l) == IF l = "es" THEN {"es-MX"} ELSE {}

\* what a request for language l may end with: a JSON body, whose lang is l
\* or another code, a body that is not JSON, or a status that is not ok (a
\* network failure ends the same way)
Outcomes(l) ==
    {[kind |-> "json", texts |-> TextsPool[i], lang |-> l] : i \in 1..Len(TextsPool)}
    \cup {[kind |-> "json", texts |-> TextsPool[1], lang |-> r] : r \in Regional(l)}
    \cup {[kind |-> "notJson", texts |-> << >>, lang |-> ""],
          [kind |-> "httpError", texts |-> << >>, lang |-> ""]}

NoResponse == [kind |-> "null", texts |-> << >>, batch |-> 0, lang |-> ""]

\* a language's callback: not selected, new, awaiting a response, applying,
\* done.  i is the batch awaited, got the responses received so far, dropped
\* the bodies received that the callback did not keep.
NotSelected ==
    [pc |-> "none", i |-> 0, got |-> 0, response |-> NoResponse, success |-> FALSE,
     dropped |-> << >>]

NewCallback ==
    [pc |-> "new", i |-> 0, got |-> 0, response |-> NoResponse, success |-> FALSE,
     dropped |-> << >>]

\* return { lang, duplicatedFrame: null, success: false } of the else branch
NoTranslation(p) == [p EXCEPT !.pc = "done", !.success = FALSE]

\* the callback's exception is never handled: its promise stays rejected
Uncaught(p) == [p EXCEPT !.pc = "thrown", !.success = FALSE]

\* catch (error) of the callback: return { ..., success: false }
Caught(p) == [p EXCEPT !.pc = "done", !.success = FALSE]

NoFrame == [exists |-> FALSE, name |-> "", nodes |-> << >>]

OriginalContent(i) == [by |-> "original", html |-> OriginalCharacters(i)]

FrameName == "Ad"

\* originalFrame.clone() named after translation.lang
Clone(lang) ==
    [exists |-> TRUE, name |-> FrameName \o " [" \o lang \o "]",
     nodes |-> original]

\* the keys of an insertion-ordered Map kept as a sequence of [lang, ...]
Keys(map) == [i \in 1..Len(map) |-> map[i].lang]

Has(map, lang) == \E i \in 1..Len(map) : map[i].lang = lang

Get(map, lang) == map[CHOOSE i \in 1..Len(map) : map[i].lang = lang]

\* map.set(lang, entry): a new key goes last, an old key keeps its place
Set(map, entry) ==
    IF Has(map, entry.lang)
    THEN [i \in 1..Len(map) |-> IF map[i].lang = entry.lang THEN entry ELSE map[i]]
    ELSE Append(map, entry)

\* a delete that removes nothing
DeleteNone(map, lang) == map

\* map.delete(lang)
Delete(map, lang) == SelectSeq(map, LAMBDA e : e.lang # lang)

\* translationMap: nodeId -> html, a key at the place of its first entry and
\* with the html of its last
TranslationMap(texts) ==
    LET firsts == SelectSeq([i \in 1..Len(texts) |-> i],
                            LAMBDA i : \A j \in 1..(i - 1) : texts[j].nodeId # texts[i].nodeId)
        lastOf(id) == CHOOSE j \in 1..Len(texts) :
                          /\ texts[j].nodeId = id
                          /\ \A k \in (j + 1)..Len(texts) : texts[k].nodeId # id
    IN  [k \in 1..Len(firsts) |->
            [nodeId |-> texts[firsts[k]].nodeId,
             html |-> texts[lastOf(texts[firsts[k]].nodeId)].html]]

\* the entry has a node at the same traversal position of the duplicate
HasCounterpart(nodeId, frame) == nodeId \in 1..doc.units /\ nodeId <= Len(frame.nodes)

\* a loop that ends at the first entry without a counterpart
RECURSIVE ApplyEntriesUntilMismatch(_, _, _)
ApplyEntriesUntilMismatch(frame, map, upTo) ==
    IF upTo = 0 THEN frame
    ELSE LET before == ApplyEntriesUntilMismatch(frame, map, upTo - 1)
             e      == map[upTo]
         IN  IF \A k \in 1..upTo : HasCounterpart(map[k].nodeId, frame)
             THEN [before EXCEPT !.nodes[e.nodeId] = [by |-> "translation", html |-> e.html]]
             ELSE before

\* applyTranslation's loop over the first upTo entries of the map
RECURSIVE ApplyEntries(_, _, _)
ApplyEntries(frame, map, upTo) ==
    IF upTo = 0 THEN frame
    ELSE LET before == ApplyEntries(frame, map, upTo - 1)
             e      == map[upTo]
         IN  IF HasCounterpart(e.nodeId, before)
             THEN [before EXCEPT !.nodes[e.nodeId] = [by |-> "translation", html |-> e.html]]
             ELSE before

\* every entry of the response, the filter left out
EveryTranslation(texts) == texts

\* translationResponse.texts.filter((t) => t.isNew)
NewTranslations(texts) == SelectSeq(texts, LAMBDA t : t.isNew)

\* originalTextMap.get(t.nodeId) || t.characters
CharactersOriginal(t) ==
    IF t.nodeId \in 1..Len(textNodes) /\ OriginalCharacters(t.nodeId) # << >>
    THEN OriginalCharacters(t.nodeId) ELSE t.characters

\* extractPlainTextFromHTML(t.html) of the entries a response can carry
TranslatedPlainText ==
    [h \in UNION {{TextsPool[i][j].html : j \in 1..Len(TextsPool[i])} :
                     i \in 1..Len(TextsPool)} \ {NoMarkup}
        |-> extractPlainTextFromHTML(h)]

\* the review item made of a new translation
ReviewItem(t) ==
    [nodeId |-> t.nodeId, charactersOriginal |-> CharactersOriginal(t),
     characters |-> t.characters,
     charactersTranslated |-> TranslatedPlainText[t.html], html |-> t.html]

ReviewData(texts) ==
    [k \in 1..Len(NewTranslations(texts)) |-> ReviewItem(NewTranslations(texts)[k])]

\* nodeMapping: original node id -> the node at the same place of the duplicate
NodeMapping(frame) == [i \in 1..Min(doc.units, Len(frame.nodes)) |-> i]

\* the message that presents a language's queue
LoadReview(lang, langIndex) ==
    [type |-> "load-review", translations |-> Get(pendingReviews, lang).items,
     lang |-> lang, langIndex |-> langIndex, totalLangs |-> Len(languageOrder)]

\* the last key of the pending reviews
LastLang(pending) == IF pending = << >> THEN "" ELSE pending[Len(pending)].lang

\* Array.from(reviewState.pendingReviews.keys())[0]
NextLang(pending) == IF pending = << >> THEN "" ELSE pending[1].lang

\* array.indexOf(x), 0-based
IndexIn(seq, x) ==
    FirstOf({i \in 0..(Len(seq) - 1) : seq[i + 1] = x})

\* some callback has settled
AnySettled == \E i \in 1..Len(languages) : lp[languages[i]].pc = "done"

\* Promise.all(translationPromises) resolves: every callback has returned
AllSettled == \A i \in 1..Len(languages) : lp[languages[i]].pc = "done"

\* the callback of language k starts only when the ones before it are done
AwaitReady(k) == \A j \in 1..(k - 1) : lp[languages[j]].pc = "done"

\* languages.map(async ...) calls callback k as soon as the ones before it
\* have run to their first await or returned
MapReady(k) == \A j \in 1..(k - 1) : lp[languages[j]].pc # "new"

\* the handler is not running: a response or a message may be taken
EventLoopFree == mapIdx > Len(languages) \/ ~ MapReady(mapIdx)

\* the greatest of a set of offsets, -1 when there is none
LastOf(offsets) ==
    IF offsets = {} THEN -1 ELSE CHOOSE x \in offsets : \A y \in offsets : y <= x

\* the match of /<span[^>]*style="([^"]*)"[^>]*>/ that starts at offset i:
\* [found, group]
StyledSpanFrom(s, i, j) ==
    IF j = -1 THEN [found |-> FALSE, group |-> << >>]
    ELSE [found |-> TRUE,
          group |-> Substring(s, j + 7, IndexOf(s, <<"\"">>, j + 7))]

StyledSpanAt(s, i) ==
    IF ~ StartsWithAt(s, i, Chars("<span")) THEN [found |-> FALSE, group |-> << >>]
    ELSE StyledSpanFrom(s, i,
             LastOf(
                 {j \in (i + 5)..(Len(s) - 1) :
                     /\ \A k \in (i + 5)..(j - 1) : s[k + 1] # ">"
                     /\ StartsWithAt(s, j, Chars("style=\""))
                     /\ IndexOf(s, <<"\"">>, j + 7) # -1
                     /\ IndexOf(s, <<">">>, IndexOf(s, <<"\"">>, j + 7) + 1) # -1}))

StyledSpanFirst(s, at) ==
    IF at = -1 THEN [found |-> FALSE, group |-> << >>] ELSE StyledSpanAt(s, at)

\* the last span with a style instead of the first
StyledSpanLast(s) ==
    StyledSpanFirst(s, LastOf({i \in 0..(Len(s) - 1) : StyledSpanAt(s, i).found}))

StyledSpan(s) ==
    StyledSpanFirst(s, FirstOf({i \in 0..(Len(s) - 1) : StyledSpanAt(s, i).found}))

UpdatedHtml(style, escapedText) ==
    IF style # << >>
    THEN Chars("<span style=\"") \o style \o Chars("\">") \o escapedText \o Chars("</span>")
    ELSE Chars("<span>") \o escapedText \o Chars("</span>")

updateHtmlText(originalHtml, newText) ==
    UpdatedHtml(StyledSpan(originalHtml).group, escapeHtml(newText))

\* the markups of the entries a response may mark as new
NewMarkups ==
    UNION {{TextsPool[i][j].html : j \in {j \in 1..Len(TextsPool[i]) : TextsPool[i][j].isNew}} :
              i \in 1..Len(TextsPool)} \ {NoMarkup}

\* what the user may type over a translation
EditPool == {Chars("a<b")}

\* updateHtmlText of each markup the review presents and each text typed
EditedMarkup ==
    [h \in NewMarkups |-> [t \in EditPool |-> updateHtmlText(h, t)]]

(***************************************************************************)
(* The documents an export may run on, and the state before the export.    *)
(***************************************************************************)
MaxUnits == 450

\* the numbers of text nodes a chunked export is run with
UnitCounts ==
    {0, 1, CHUNK_SIZE - 1, CHUNK_SIZE, CHUNK_SIZE + 1, 2 * CHUNK_SIZE,
     2 * CHUNK_SIZE + 1, MaxUnits - 1, MaxUnits}

Doc(selection, units, payloadLen, ticked) ==
    [selection |-> selection, units |-> units, payloadLen |-> payloadLen,
     ticked |-> ticked]

ChunkDocs ==
    {Doc("frame", n, len, [given |-> TRUE, list |-> SubSeq(LangPool, 1, 2)]) :
        n \in UnitCounts,
        len \in {MAX_PAYLOAD_SIZE - 1, MAX_PAYLOAD_SIZE, MAX_PAYLOAD_SIZE + 1}}

Ticked(k) == [given |-> TRUE, list |-> SubSeq(LangPool, 1, k)]

\* the oversize documents whose export is followed to its end
BatchDocs ==
    {Doc("frame", CHUNK_SIZE + 1, MAX_PAYLOAD_SIZE + 1, Ticked(2)),
     Doc("frame", MaxUnits, MAX_PAYLOAD_SIZE + 1, Ticked(1)),
     Doc("frame", CHUNK_SIZE, MAX_PAYLOAD_SIZE + 1, Ticked(1))}

Docs ==
    {Doc(sel, 2, 1024, [given |-> FALSE, list |-> << >>]) : sel \in {"none", "text", "two"}}
    \cup {Doc("frame", 2, 1024, t) :
             t \in {[given |-> FALSE, list |-> << >>], Ticked(0), Ticked(Len(LangPool))}}
    \cup {Doc("frame", 2, MAX_PAYLOAD_SIZE + 1, Ticked(1)),
          Doc("frame", 0, MAX_PAYLOAD_SIZE + 1, Ticked(2)),
          Doc("frame", 1, 1024, Ticked(1))}

NoUi == [lang |-> "", items |-> << >>]

NoRequest == [frame |-> [id |-> "", name |-> ""], texts |-> << >>, lang |-> ""]

\* no apply-changes message has been handled
NoChange ==
    [lang |-> "", nodeId |-> 0, charactersTranslated |-> << >>, html |-> << >>,
     appliedToFrame |-> FALSE]

NoUpload == [pc |-> "idle", lang |-> "", request |-> NoRequest, failures |-> 0]

FlowReset ==
    /\ languages = << >>
    /\ textNodes = << >>
    /\ mapIdx = 0
    /\ lp = [l \in LangSet |-> NotSelected]
    /\ sentBy = [l \in LangSet |-> << >>]
    /\ frames = [l \in LangSet |-> NoFrame]
    /\ duplicatedFrames = << >>
    /\ pendingReviews = << >>
    /\ nodeIdMappings = << >>
    /\ languageOrder = << >>
    /\ posted = << >>
    /\ ui = NoUi
    /\ upload = NoUpload
    /\ uploaded = << >>
    /\ selected = << >>
    /\ lastChange = NoChange
    /\ original = [i \in 1..doc.units |-> OriginalContent(i)]

\* the plugin is open on a document and no message has been handled
FlowStart(docs) ==
    /\ doc \in docs
    /\ phase = "idle"
    /\ FlowReset

\* the plugin at rest, in the runs that are about one of its functions
FlowIdle ==
    /\ doc = Doc("none", 0, 0, [given |-> FALSE, list |-> << >>])
    /\ phase = "off"
    /\ FlowReset

(***************************************************************************)
(* export-frame                                                            *)
(***************************************************************************)

\* the number of nodes selected and the type of the first of them
SelectionLength == IF doc.selection = "none" THEN 0 ELSE IF doc.selection = "two" THEN 2 ELSE 1

SelectedType == IF doc.selection = "text" THEN "TEXT" ELSE "FRAME"

\* the validation without its check of the node's type
SelectionSingle == SelectionLength = 1

\* selection.length !== 1 and selected.type !== 'FRAME' both pass
SelectionValid == SelectionLength = 1 /\ SelectedType = "FRAME"

\* the handler up to languages.map: validation, extraction, the test payload
Export ==
    /\ phase = "idle"
    /\ IF ~ SelectionValid
       THEN /\ phase' = "rejected"
            /\ UNCHANGED <<languages, textNodes, mapIdx, lp>>
       ELSE /\ phase' = "translating"
            /\ languages' = IF doc.ticked.given THEN doc.ticked.list ELSE << "es" >>
            /\ textNodes' = [i \in 1..doc.units |-> i]
            /\ mapIdx' = 1
            /\ lp' = [l \in LangSet |->
                        IF \E i \in 1..Len(languages') : languages'[i] = l
                        THEN NewCallback ELSE NotSelected]
    /\ UNCHANGED <<doc, sentBy, frames, reviewState, posted, ui, upload, uploaded,
                   selected, lastChange, original, codecVars, applierVars, imageVars>>

Send(l, request) == sentBy' = [sentBy EXCEPT ![l] = Append(@, request)]

\* the callback sending every batch at once, none awaited before the next
StartCallbackAll(l, chunks) ==
    /\ sentBy' = [sentBy EXCEPT ![l] =
                     @ \o [k \in 1..Len(chunks) |->
                              Request(l, chunks[k], [index |-> k, total |-> Len(chunks)])]]
    /\ lp' = [lp EXCEPT ![l].pc = "awaiting", ![l].i = 1]

\* the callback of a language from its start to its first await
StartCallback(l, chunks) ==
    IF doc.payloadLen > MAX_PAYLOAD_SIZE
    THEN IF Len(chunks) = 0
         THEN /\ lp' = [lp EXCEPT ![l] = NoTranslation(@)]
              /\ UNCHANGED sentBy
         ELSE /\ Send(l, Request(l, chunks[1], [index |-> 1, total |-> Len(chunks)]))
              /\ lp' = [lp EXCEPT ![l].pc = "awaiting", ![l].i = 1]
    ELSE /\ Send(l, Request(l, textNodes, NoChunk))
         /\ lp' = [lp EXCEPT ![l].pc = "awaiting", ![l].i = 1]

\* languages.map calls the next callback
MapCallback ==
    /\ phase = "translating"
    /\ mapIdx <= Len(languages)
    /\ MapReady(mapIdx)
    /\ StartCallback(languages[mapIdx], Chunks(textNodes))
    /\ mapIdx' = mapIdx + 1
    /\ UNCHANGED <<doc, phase, languages, textNodes, frames, reviewState, posted, ui,
                   upload, uploaded, selected, lastChange, original, codecVars, applierVars,
                   imageVars>>

\* a translationResponse that holds the body of a response
Body(o, i) == [kind |-> "json", texts |-> o.texts, batch |-> i, lang |-> o.lang]

\* the chunk loop keeping the response of whichever batch answered last
RetainEvery(kept, o, i, total) == IF o.kind = "json" THEN Body(o, i) ELSE kept

\* if (i === chunks.length - 1 && response) translationResponse = response
Retain(kept, o, i, total) == IF i = total /\ o.kind = "json" THEN Body(o, i) ELSE kept

\* translationResponse after the response o to request i of the language
ResponseAfter(l, o, chunks) ==
    IF doc.payloadLen > MAX_PAYLOAD_SIZE
    THEN Retain(lp[l].response, o, lp[l].i, Len(chunks))
    ELSE IF o.kind = "json" THEN Body(o, lp[l].i) ELSE NoResponse

\* the bodies received and not kept, after the response o
DroppedAfter(l, o, chunks) ==
    IF o.kind = "json" /\ ResponseAfter(l, o, chunks) # Body(o, lp[l].i)
    THEN Append(lp[l].dropped, Body(o, lp[l].i))
    ELSE lp[l].dropped

\* the callback of a language from the response it awaited to its next await
Received(l, o, chunks) ==
    IF o.kind = "httpError"
    THEN /\ lp' = [lp EXCEPT ![l] = Caught([@ EXCEPT !.got = @ + 1])]
         /\ UNCHANGED sentBy
    ELSE IF doc.payloadLen > MAX_PAYLOAD_SIZE /\ lp[l].i < Len(chunks)
    THEN /\ Send(l, Request(l, chunks[lp[l].i + 1],
                            [index |-> lp[l].i + 1, total |-> Len(chunks)]))
         /\ lp' = [lp EXCEPT ![l].i = @ + 1, ![l].got = @ + 1,
                             ![l].response = ResponseAfter(l, o, chunks),
                             ![l].dropped = DroppedAfter(l, o, chunks)]
    ELSE /\ UNCHANGED sentBy
         /\ IF ResponseAfter(l, o, chunks).kind = "json"
               /\ Len(ResponseAfter(l, o, chunks).texts) > 0
            THEN lp' = [lp EXCEPT ![l].pc = "applying", ![l].got = @ + 1,
                                  ![l].response = ResponseAfter(l, o, chunks)]
            ELSE lp' = [lp EXCEPT ![l] = NoTranslation([@ EXCEPT !.got = @ + 1])]

Respond ==
    /\ phase = "translating"
    /\ EventLoopFree
    /\ \E l \in LangSet :
           /\ lp[l].pc = "awaiting"
           /\ \E o \in Outcomes(l) : Received(l, o, Chunks(textNodes))
    /\ UNCHANGED <<doc, phase, languages, textNodes, mapIdx, frames, reviewState, posted,
                   ui, upload, uploaded, selected, lastChange, original, codecVars, applierVars,
                   imageVars>>

\* the duplicate applyTranslation makes from the response of language l
Duplicate(l) == Clone(lp[l].response.lang)

\* where the applier may throw: at the first entry it is called for
FailPoints(map) ==
    {k \in 1..Len(map) :
        /\ HasCounterpart(map[k].nodeId, Clone("es"))
        /\ \A j \in 1..(k - 1) : ~ HasCounterpart(map[j].nodeId, Clone("es"))}

\* the first entry of the map with a counterpart and no html, where
\* translatedHTML.substring throws; 0 when there is none
MissingMarkupAt(map, frame) ==
    FirstOf({k \in 1..Len(map) :
                HasCounterpart(map[k].nodeId, frame) /\ map[k].html = NoMarkup})

\* a new translation has no html: extractPlainTextFromHTML throws
ReviewDataThrows(texts) ==
    \E k \in 1..Len(NewTranslations(texts)) : NewTranslations(texts)[k].html = NoMarkup

\* applyTranslation and the bookkeeping after it; failAt > 0: the applier
\* throws at that entry of the map; missing: MissingMarkupAt or -1
Translated(l, texts, map, failAt, missing) ==
    IF missing # -1 /\ (failAt = 0 \/ failAt >= missing)
    THEN /\ frames' = [frames EXCEPT ![l] = ApplyEntries(Duplicate(l), map, missing - 1)]
         /\ lp' = [lp EXCEPT ![l] = Caught(@)]
         /\ UNCHANGED <<duplicatedFrames, pendingReviews, nodeIdMappings>>
    ELSE IF failAt = 0
    THEN /\ frames' = [frames EXCEPT ![l] = ApplyEntries(Duplicate(l), map, Len(map))]
         /\ duplicatedFrames' = Set(duplicatedFrames, [lang |-> l])
         /\ IF ReviewDataThrows(texts)
            THEN /\ lp' = [lp EXCEPT ![l] = Caught(@)]
                 /\ UNCHANGED <<pendingReviews, nodeIdMappings>>
            ELSE /\ IF NewTranslations(texts) # << >>
                    THEN /\ pendingReviews' =
                                Set(pendingReviews, [lang |-> l, items |-> ReviewData(texts)])
                         /\ nodeIdMappings' =
                                Set(nodeIdMappings, [lang |-> l, nodes |-> NodeMapping(Duplicate(l))])
                    ELSE UNCHANGED <<pendingReviews, nodeIdMappings>>
                 /\ lp' = [lp EXCEPT ![l].pc = "done", ![l].success = TRUE]
    ELSE /\ frames' = [frames EXCEPT ![l] =
                          [ApplyEntries(Duplicate(l), map, failAt - 1) EXCEPT
                              !.nodes[map[failAt].nodeId] =
                                  [by |-> "partial", html |-> map[failAt].html]]]
         /\ lp' = [lp EXCEPT ![l] = Caught(@)]
         /\ UNCHANGED <<duplicatedFrames, pendingReviews, nodeIdMappings>>

Apply ==
    /\ phase = "translating"
    /\ EventLoopFree
    /\ \E l \in LangSet :
           /\ lp[l].pc = "applying"
           /\ \E map \in {TranslationMap(lp[l].response.texts)} :
                  \E failAt \in {0} \cup FailPoints(map) :
                      Translated(l, lp[l].response.texts, map, failAt,
                                 MissingMarkupAt(map, Duplicate(l)))
    /\ UNCHANGED <<doc, phase, languages, textNodes, mapIdx, sentBy, languageOrder,
                   posted, ui, upload, uploaded, selected, lastChange, original, codecVars, applierVars,
                   imageVars>>

LoadReviewMsg(pending, order, lang, langIndex) ==
    [type |-> "load-review", translations |-> Get(pending, lang).items, lang |-> lang,
     langIndex |-> langIndex, totalLangs |-> Len(order)]

AllFrames == [i \in 1..Len(duplicatedFrames) |-> [lang |-> duplicatedFrames[i].lang, node |-> 0]]

\* the handler after Promise.all: the first review, or completion
FanIn ==
    /\ phase = "translating"
    /\ mapIdx > Len(languages)
    /\ AllSettled
    /\ IF pendingReviews # << >>
       THEN /\ languageOrder' = Keys(pendingReviews)
            /\ posted' = Append(posted, LoadReviewMsg(pendingReviews, Keys(pendingReviews),
                                                      Keys(pendingReviews)[1], 1))
            /\ ui' = [lang |-> Keys(pendingReviews)[1],
                      items |-> pendingReviews[1].items]
            /\ phase' = "review"
            /\ UNCHANGED selected
       ELSE /\ selected' = IF duplicatedFrames # << >> THEN AllFrames ELSE selected
            /\ phase' = "closed"
            /\ UNCHANGED <<languageOrder, posted, ui>>
    /\ UNCHANGED <<doc, languages, textNodes, mapIdx, lp, sentBy, frames, duplicatedFrames,
                   pendingReviews, nodeIdMappings, upload, uploaded, lastChange, original,
                   codecVars, applierVars, imageVars>>

(***************************************************************************)
(* Review: highlight-node, apply-changes, upload-translations.             *)
(***************************************************************************)

\* the upload requests that may fail in a session
MaxUploadFailures == 1

\* the presented items the user works on
Reviewed == {k \in 1..Len(ui.items) : k = 1}

\* the last language, in the order of the mappings, that maps the node
OwnerOfLast(nodeId) ==
    LET at == {i \in 1..Len(nodeIdMappings) : nodeId \in 1..Len(nodeIdMappings[i].nodes)}
    IN  IF at = {} THEN ""
        ELSE nodeIdMappings[CHOOSE i \in at : \A j \in at : j <= i].lang

\* the first language, in the order of the mappings, that maps the node
OwnerOf(nodeId) ==
    LET at == FirstOf({i \in 0..(Len(nodeIdMappings) - 1) :
                          nodeId \in 1..Len(nodeIdMappings[i + 1].nodes)})
    IN  IF at = -1 THEN "" ELSE nodeIdMappings[at + 1].lang

\* a highlight that consumes the mapping it used
HighlightForgets ==
    /\ phase = "review"
    /\ \E k \in Reviewed :
           LET nodeId == ui.items[k].nodeId
           IN  IF OwnerOf(nodeId) = "" THEN UNCHANGED <<selected, nodeIdMappings>>
               ELSE /\ selected' =
                         << [lang |-> OwnerOf(nodeId),
                             node |-> Get(nodeIdMappings, OwnerOf(nodeId)).nodes[nodeId]] >>
                    /\ nodeIdMappings' = Delete(nodeIdMappings, OwnerOf(nodeId))
    /\ UNCHANGED <<doc, phase, languages, textNodes, mapIdx, lp, sentBy, frames,
                   duplicatedFrames, pendingReviews, languageOrder, posted, ui, upload,
                   uploaded, lastChange, original, codecVars, applierVars, imageVars>>

\* highlightNodeInFrame for the node of a presented item
Highlight ==
    /\ phase = "review"
    /\ \E k \in Reviewed :
           LET nodeId == ui.items[k].nodeId
           IN  IF OwnerOf(nodeId) = "" THEN UNCHANGED selected
               ELSE selected' =
                        << [lang |-> OwnerOf(nodeId),
                            node |-> Get(nodeIdMappings, OwnerOf(nodeId)).nodes[nodeId]] >>
    /\ UNCHANGED <<doc, phase, languages, textNodes, mapIdx, lp, sentBy, frames,
                   reviewState, posted, ui, upload, uploaded, lastChange, original,
                   codecVars, applierVars, imageVars>>

\* applyChangesToFrame's translation object once the handler has returned
Marked(translation, lang, applied) ==
    [lang |-> lang, nodeId |-> translation.nodeId,
     charactersTranslated |-> translation.charactersTranslated,
     html |-> IF applied
              THEN EditedMarkup[translation.html][translation.charactersTranslated]
              ELSE translation.html,
     appliedToFrame |-> applied]

\* an edit written to the node of the frame the user selected
ChangedOriginal(translation, lang, failed) ==
    IF ~ Has(nodeIdMappings, lang)
    THEN /\ lastChange' = Marked(translation, lang, FALSE)
         /\ UNCHANGED <<frames, original>>
    ELSE IF translation.nodeId \notin 1..Len(Get(nodeIdMappings, lang).nodes)
    THEN /\ lastChange' = Marked(translation, lang, FALSE)
         /\ UNCHANGED <<frames, original>>
    ELSE /\ lastChange' = Marked(translation, lang, TRUE)
         /\ original' = [original EXCEPT ![translation.nodeId] =
                [by |-> IF failed THEN "partial" ELSE "edit",
                 html |-> EditedMarkup[translation.html]
                                      [translation.charactersTranslated]]]
         /\ UNCHANGED frames

\* applyChangesToFrame for a presented item the user has edited; failed:
\* the applier throws, which the handler catches
Changed(translation, lang, failed) ==
    IF ~ Has(nodeIdMappings, lang)
    THEN /\ lastChange' = Marked(translation, lang, FALSE)
         /\ UNCHANGED <<frames, original>>
    ELSE IF translation.nodeId \notin 1..Len(Get(nodeIdMappings, lang).nodes)
    THEN /\ lastChange' = Marked(translation, lang, FALSE)
         /\ UNCHANGED <<frames, original>>
    ELSE /\ lastChange' = Marked(translation, lang, TRUE)
         /\ UNCHANGED original
         /\ frames' = [frames EXCEPT
                ![lang].nodes[Get(nodeIdMappings, lang).nodes[translation.nodeId]] =
                    [by |-> IF failed THEN "partial" ELSE "edit",
                     html |-> EditedMarkup[translation.html]
                                          [translation.charactersTranslated]]]

ApplyChanges ==
    /\ phase = "review"
    /\ \E k \in Reviewed : \E text \in EditPool : \E failed \in BOOLEAN :
           /\ ui' = [ui EXCEPT !.items[k].charactersTranslated = text]
           /\ Changed(ui'.items[k], ui.lang, failed)
    /\ UNCHANGED <<doc, phase, languages, textNodes, mapIdx, lp, sentBy, reviewState,
                   posted, upload, uploaded, selected, codecVars, applierVars,
                   imageVars>>

\* a payload of the first item only
UploadPayloadFirst(translations, lang) ==
    [frame |-> [id |-> lang, name |-> frames[lang].name],
     texts |-> [k \in 1..Min(1, Len(translations)) |->
                   [nodeId |-> translations[k].nodeId,
                    characters |-> translations[k].charactersOriginal,
                    characters_translated |-> translations[k].charactersTranslated]],
     lang |-> lang]

\* the payload of an upload: frame, texts and lang
UploadPayload(translations, lang) ==
    [frame |-> [id |-> lang, name |-> frames[lang].name],
     texts |-> [k \in 1..Len(translations) |->
                   [nodeId |-> translations[k].nodeId,
                    characters |-> translations[k].charactersOriginal,
                    characters_translated |-> translations[k].charactersTranslated]],
     lang |-> lang]

\* uploadTranslations up to its fetch
UploadSend ==
    /\ phase = "review"
    /\ upload.pc = "idle"
    /\ IF ~ Has(duplicatedFrames, ui.lang)
       THEN UNCHANGED upload
       ELSE upload' = [upload EXCEPT !.pc = "inflight", !.lang = ui.lang,
                                     !.request = UploadPayload(ui.items, ui.lang)]
    /\ UNCHANGED <<doc, phase, languages, textNodes, mapIdx, lp, sentBy, frames,
                   reviewState, posted, ui, uploaded, selected, lastChange, original, codecVars, applierVars,
                   imageVars>>

\* an upload that deletes the queue and leaves the mapping
UploadedKeepsMapping(lang, pending, nextLang) ==
    /\ pendingReviews' = pending
    /\ nodeIdMappings' = nodeIdMappings
    /\ uploaded' = Append(uploaded, lang)
    /\ upload' = [NoUpload EXCEPT !.failures = upload.failures]
    /\ IF nextLang # ""
       THEN /\ posted' = Append(posted,
                   LoadReviewMsg(pending, languageOrder, nextLang,
                       IF IndexIn(languageOrder, nextLang) >= 0
                       THEN IndexIn(languageOrder, nextLang) + 1
                       ELSE Len(languageOrder) - Len(pending) + 1))
            /\ ui' = [lang |-> nextLang, items |-> Get(pending, nextLang).items]
            /\ UNCHANGED <<phase, selected>>
       ELSE /\ selected' = IF duplicatedFrames # << >> THEN AllFrames ELSE selected
            /\ phase' = "closed"
            /\ UNCHANGED <<posted, ui>>

\* uploadTranslations after a response that is ok
Uploaded(lang, pending, nextLang) ==
    /\ pendingReviews' = pending
    /\ nodeIdMappings' = Delete(nodeIdMappings, lang)
    /\ uploaded' = Append(uploaded, lang)
    /\ upload' = [NoUpload EXCEPT !.failures = upload.failures]
    /\ IF nextLang # ""
       THEN /\ posted' = Append(posted,
                   LoadReviewMsg(pending, languageOrder, nextLang,
                       IF IndexIn(languageOrder, nextLang) >= 0
                       THEN IndexIn(languageOrder, nextLang) + 1
                       ELSE Len(languageOrder) - Len(pending) + 1))
            /\ ui' = [lang |-> nextLang, items |-> Get(pending, nextLang).items]
            /\ UNCHANGED <<phase, selected>>
       ELSE /\ selected' = IF duplicatedFrames # << >> THEN AllFrames ELSE selected
            /\ phase' = "closed"
            /\ UNCHANGED <<posted, ui>>

\* an upload that puts the translations received back on the duplicate
UploadOkReapplies ==
    /\ phase = "review"
    /\ upload.pc = "inflight"
    /\ Uploaded(upload.lang, Delete(pendingReviews, upload.lang),
                NextLang(Delete(pendingReviews, upload.lang)))
    /\ frames' = [frames EXCEPT ![upload.lang] =
                     ApplyEntries(@, TranslationMap(lp[upload.lang].response.texts),
                                  Len(TranslationMap(lp[upload.lang].response.texts)))]
    /\ UNCHANGED <<doc, languages, textNodes, mapIdx, lp, sentBy, duplicatedFrames,
                   languageOrder, lastChange, original, codecVars, applierVars,
                   imageVars>>

\* a successful upload that keeps the language's queue
UploadOkRepeats ==
    /\ phase = "review"
    /\ upload.pc = "inflight"
    /\ Uploaded(upload.lang, pendingReviews, NextLang(pendingReviews))
    /\ UNCHANGED <<doc, languages, textNodes, mapIdx, lp, sentBy, frames, duplicatedFrames,
                   languageOrder, lastChange, original, codecVars, applierVars,
                   imageVars>>

UploadOk ==
    /\ phase = "review"
    /\ upload.pc = "inflight"
    /\ Uploaded(upload.lang, Delete(pendingReviews, upload.lang),
                NextLang(Delete(pendingReviews, upload.lang)))
    /\ UNCHANGED <<doc, languages, textNodes, mapIdx, lp, sentBy, frames, duplicatedFrames,
                   languageOrder, lastChange, original, codecVars, applierVars,
                   imageVars>>

\* a failed upload that drops the language's queue
UploadFailedDrops ==
    /\ phase = "review"
    /\ upload.pc = "inflight"
    /\ upload.failures < MaxUploadFailures
    /\ upload' = [NoUpload EXCEPT !.failures = upload.failures + 1]
    /\ pendingReviews' = Delete(pendingReviews, upload.lang)
    /\ UNCHANGED <<doc, phase, languages, textNodes, mapIdx, lp, sentBy, frames,
                   duplicatedFrames, nodeIdMappings, languageOrder, posted, ui, uploaded,
                   selected, lastChange, original, codecVars, applierVars, imageVars>>

\* uploadTranslations after a status that is not ok or a network failure
UploadFailed ==
    /\ phase = "review"
    /\ upload.pc = "inflight"
    /\ upload.failures < MaxUploadFailures
    /\ upload' = [NoUpload EXCEPT !.failures = upload.failures + 1]
    /\ UNCHANGED <<doc, phase, languages, textNodes, mapIdx, lp, sentBy, frames,
                   reviewState, posted, ui, uploaded, selected, lastChange, original, codecVars, applierVars,
                   imageVars>>

(***************************************************************************)
(* Image export: uint8ArrayToBase64.  A byte is a number in 0..255.        *)
(***************************************************************************)
base64chars ==
    Chars("ABCDEFGHIJKLMNOPQRSTUVWXYZabcdefghijklmnopqrstuvwxyz0123456789+/")

\* the loop of uint8ArrayToBase64 from offset i, with the text so far
RECURSIVE Base64Loop(_, _, _)
Base64Loop(bytes, i, result) ==
    IF i >= Len(bytes) THEN result
    ELSE LET len    == Len(bytes)
             a      == bytes[i + 1]
             i1     == i + 1
             b      == IF i1 < len THEN bytes[i1 + 1] ELSE 0
             i2     == IF i1 < len THEN i1 + 1 ELSE i1
             c      == IF i2 < len THEN bytes[i2 + 1] ELSE 0
             i3     == IF i2 < len THEN i2 + 1 ELSE i2
             bitmap == a * 65536 + b * 256 + c
         IN  Base64Loop(bytes, i3,
                 result
                 \o << CharAt(base64chars, (bitmap \div 262144) % 64),
                       CharAt(base64chars, (bitmap \div 4096) % 64),
                       IF i3 > len + 1 THEN "="
                       ELSE CharAt(base64chars, (bitmap \div 64) % 64),
                       IF i3 > len THEN "="
                       ELSE CharAt(base64chars, bitmap % 64) >>)

uint8ArrayToBase64(bytes) == Base64Loop(bytes, 0, << >>)

\* the images an export may produce: at most MaxBytes bytes of BytePool
MaxBytes == 4

BytePool == {0, 77, 255}

ByteSeqs == UNION {[1..n -> BytePool] : n \in 0..MaxBytes}

ImageStart ==
    /\ imageBytes \in ByteSeqs
    /\ frameImageBase64 = NotYet

\* no image is being exported, in the runs that are about another component
ImageIdle ==
    /\ imageBytes = << >>
    /\ frameImageBase64 = NotYet

\* frameImageBase64 = uint8ArrayToBase64(imageBytes)
ToBase64 ==
    /\ ~ frameImageBase64.done
    /\ frameImageBase64' = Done(uint8ArrayToBase64(imageBytes))
    /\ UNCHANGED <<imageBytes, codecVars, applierVars, flowVars>>

(***************************************************************************)
(* Specifications.                                                         *)
(***************************************************************************)
InitCodec == CodecStart /\ ApplierIdle /\ FlowIdle /\ ImageIdle

NextCodec == Encode \/ Decode \/ PlainText

SpecCodec == InitCodec /\ [][NextCodec]_vars

InitApplier == ApplierStart /\ CodecIdle /\ FlowIdle /\ ImageIdle

NextApplier ==
    \/ Begin
    \/ ApplyFont
    \/ ApplySize
    \/ ApplyColor
    \/ ApplyDecoration
    \/ ApplyLetterSpacing
    \/ ApplyLineHeight

SpecApplier == InitApplier /\ [][NextApplier]_vars

InitChunk == FlowStart(ChunkDocs) /\ CodecIdle /\ ApplierIdle /\ ImageIdle

NextChunk == Export \/ MapCallback \/ Respond

SpecChunk == InitChunk /\ [][NextChunk]_vars

\* chunked exports run to their end
InitBatch == FlowStart(BatchDocs) /\ CodecIdle /\ ApplierIdle /\ ImageIdle

NextBatch ==
    \/ Export
    \/ MapCallback
    \/ Respond
    \/ Apply
    \/ FanIn

SpecBatch == InitBatch /\ [][NextBatch]_vars

Init == FlowStart(Docs) /\ CodecIdle /\ ApplierIdle /\ ImageIdle

Translate == MapCallback \/ Respond \/ Apply \/ FanIn

Next ==
    \/ Export
    \/ MapCallback
    \/ Respond
    \/ Apply
    \/ FanIn
    \/ Highlight
    \/ ApplyChanges
    \/ UploadSend
    \/ UploadOk
    \/ UploadFailed

Spec == Init /\ [][Next]_vars

\* the conversion of an exported image
InitImage == ImageStart /\ CodecIdle /\ ApplierIdle /\ FlowIdle

NextImage == ToBase64

SpecImage == InitImage /\ [][NextImage]_vars

\* the review with a user who sends the upload of the presented language and
\* an endpoint that ends up accepting it
SpecReview ==
    Init /\ [][Next]_vars /\ WF_vars(UploadSend) /\ SF_vars(UploadOk)

\* the export run alone; every continuation that is ready is eventually run
\* and every request eventually settles
NextTranslate ==
    \/ Export
    \/ MapCallback
    \/ Respond
    \/ Apply
    \/ FanIn

SpecTranslate == Init /\ [][NextTranslate]_vars /\ WF_vars(Translate)

(***************************************************************************)
(* Claims about the codec.                                                 *)
(***************************************************************************)

\* The gap-filled style-run sequence S of a text node: the StyleRun of every
\* host segment, in order, with a run of no style for every character range
\* the host iterator leaves out.
RECURSIVE GapFilledFrom(_, _, _)
GapFilledFrom(textNode, k, lastEnd) ==
    IF k > Len(textNode.segments)
    THEN IF lastEnd < Len(textNode.characters)
         THEN << [gap |-> TRUE, text |-> SubstringFrom(textNode.characters, lastEnd)] >>
         ELSE << >>
    ELSE LET seg == textNode.segments[k]
         IN  (IF seg.start > lastEnd
              THEN << [gap |-> TRUE,
                       text |-> Substring(textNode.characters, lastEnd, seg.start)] >>
              ELSE << >>)
             \o << [gap |-> FALSE, text |-> Substring(textNode.characters, seg.start, seg.end),
                    run |-> StyleRunOf(textNode.characters, seg), face |-> seg.face] >>
             \o GapFilledFrom(textNode, k + 1, seg.end)

GapFilled(textNode) == GapFilledFrom(textNode, 1, 0)

\* a decoded segment carries the text and the style values of a style run
SameRun(seg, s) ==
    /\ seg.text = s.text
    /\ IF s.gap THEN seg.styles = NoStyles
       ELSE LET st   == seg.styles
                size == SizeOf(s.run.fontSize)
            IN  /\ st.fontFamily = s.run.font.family
                /\ st.fontWeight = NatStr(s.face.weight)
                /\ st.fontStyle = (IF s.face.italic THEN Chars("italic") ELSE Undefined)
                /\ ParseFloat(st.fontSize) = Num(s.run.fontSize)
                /\ IF s.run.fill.present
                   THEN LET c == parseColor(st.color)
                        IN  /\ c.ok /\ ~ c.hasOpacity
                            /\ c.r = s.run.fill.r /\ c.g = s.run.fill.g
                            /\ c.b = s.run.fill.b
                   ELSE st.color = Undefined
                /\ IF s.run.textDecoration = Undefined
                   THEN st.textDecoration = Undefined
                   ELSE DecorationOf(st.textDecoration) = s.run.textDecoration
                /\ parseLetterSpacing(st.letterSpacing, size)
                     = [ok |-> TRUE, value |-> Num(s.run.letterSpacing.value),
                        unit |-> s.run.letterSpacing.unit]
                /\ IF s.run.lineHeight.present
                   THEN parseLineHeight(st.lineHeight, size)
                          = [ok |-> TRUE, value |-> Num(s.run.lineHeight.value),
                             unit |-> s.run.lineHeight.unit]
                   ELSE st.lineHeight = Undefined

\* C1: decoding the markup the encoder emits for a text node's style runs
\* gives back the runs: as many segments, in the same order, each with the
\* run's text and its family, weight, italic, size, colour, decoration,
\* letter spacing and line height.
C1_RoundTrip ==
    (origin = "encoder" /\ decoded.done) =>
        LET S == GapFilled(hostNode)
            D == decoded.value
        IN  /\ Len(D) = Len(S)
            /\ \A k \in 1..Len(S) : SameRun(D[k], S[k])

\* C1 witness: two runs were decoded, one coloured semi-bold, one whose text
\* had to be entity-escaped
C1_Witness ==
    /\ origin = "encoder" /\ decoded.done
    /\ Len(decoded.value) = 2
    /\ \E k \in 1..2 : /\ decoded.value[k].styles.fontWeight = Chars("600")
                       /\ decoded.value[k].styles.color # Undefined
    /\ \E k \in 1..2 : \E c \in {"&", "<", "\""} :
           Includes(decoded.value[k].text, <<c>>)

\* C2 (as claimed): for every markup the concatenation of the decoded
\* segments' texts is the markup's visible text as extractPlainTextFromHTML
\* computes it
C2_ConcatIsVisibleText ==
    (decoded.done /\ plainText.done) =>
        SegmentsText(decoded.value) = plainText.value

(***************************************************************************)
(* Claims about the Style Applier.                                         *)
(***************************************************************************)

PropOrder == << "font", "size", "color", "decoration", "letterSpacing", "lineHeight" >>

PropIndex(prop) == CHOOSE i \in 1..Len(PropOrder) : PropOrder[i] = prop

\* the markup gives segment k a value of this property that the applier
\* would hand to the host
Usable(k, prop) ==
    LET st == segs[k].styles
    IN  CASE prop = "font" ->
               st.fontFamily # Undefined \/ st.fontWeight # Undefined
               \/ st.fontStyle # Undefined
          [] prop = "size" -> st.fontSize # Undefined /\ ~ ParseFloat(st.fontSize).isNaN
          [] prop = "color" -> st.color # Undefined /\ parseColor(st.color).ok
          [] prop = "decoration" ->
               /\ st.textDecoration # Undefined
               /\ DecorationOf(st.textDecoration)
                    \in {Chars("UNDERLINE"), Chars("STRIKETHROUGH")}
          [] prop = "letterSpacing" ->
               st.letterSpacing # Undefined /\ parseLetterSpacing(st.letterSpacing, NoSize).ok
          [] prop = "lineHeight" ->
               st.lineHeight # Undefined /\ parseLineHeight(st.lineHeight, NoSize).ok

\* C8 (as claimed): a setter that fails for one property of a segment does
\* not stop the applier: when it stops, no later property of that segment and
\* no later segment is left without having been applied
C8_FailureDoesNotAbort ==
    (pc = "aborted" /\ cursor.idx >= 1) =>
        LET failed == attempts[Len(attempts)]
        IN  /\ \A i \in (PropIndex(failed.prop) + 1)..Len(PropOrder) :
                   ~ Usable(failed.seg, PropOrder[i])
            /\ \A k \in (failed.seg + 1)..Len(segs) :
                   segs[k].text # << >> =>
                       \A i \in 1..Len(PropOrder) : ~ Usable(k, PropOrder[i])

\* the font loads made for segment k, in order
LoadsOf(k) == SelectSeq(loads, LAMBDA l : l.seg = k)

\* the font mutations made for segment k
FontSetsOf(k) == SelectSeq(attempts, LAMBDA a : a.seg = k /\ a.prop = "font")

\* the font step of segment k is over
FontDone(k) == k < cursor.idx \/ (k = cursor.idx /\ pc # "font")

SegStart(k) == Len(SegmentsText(SubSeq(segs, 1, k - 1)))

ItalicLadder ==
    << Chars("Bold Italic"), Chars("SemiBold Italic"), Chars("Semi Bold Italic"),
       Chars("Medium Italic"), Chars("Italic") >>

IsItalicStyle(style) == Includes(style, Chars("Italic"))

\* C9: when the exact font does not load the fallback candidates are tried in
\* order and the first that loads is applied; with italic requested the five
\* italic candidates come first, in the ladder's order; with italic not
\* requested no italic candidate is tried; when every candidate fails no font
\* is set and the range keeps the font it had.
C9_FontFallback ==
    \A k \in 1..Len(segs) :
        LET L      == LoadsOf(k)
            sets   == FontSetsOf(k)
            italic == segs[k].styles.fontStyle = Chars("italic")
            from   == SegStart(k)
            to     == from + Len(segs[k].text)
        IN  (pc # "begin" /\ cursor.idx >= 1 /\ FontDone(k) /\ L # << >>) =>
              /\ \A i \in 1..(Len(L) - 1) : ~ L[i].ok
              /\ IF L[Len(L)].ok
                 THEN /\ Len(sets) = 1 /\ sets[1].value = L[Len(L)].font
                      /\ \A c \in (from + 1)..to : node.fonts[c] = L[Len(L)].font
                 ELSE /\ sets = << >>
                      /\ \A c \in (from + 1)..to :
                             node.fonts[c] = FreshFonts(Len(node.fonts))[c]
                      /\ Len(L) > 1
              /\ italic =>
                   /\ \A i \in 2..Len(L) :
                          i <= 1 + Len(ItalicLadder) => L[i].font.style = ItalicLadder[i - 1]
                   /\ \A i \in 2..Len(L) :
                          ~ IsItalicStyle(L[i].font.style) => i > 1 + Len(ItalicLadder)
              /\ ~ italic => \A i \in 2..Len(L) : ~ IsItalicStyle(L[i].font.style)

\* C9 witness: a Black Italic request fell through four italic candidates to
\* Italic, and for another segment every candidate failed
C9_Witness ==
    /\ pc = "done"
    /\ \E k \in 1..Len(segs) :
           LET L == LoadsOf(k)
           IN  /\ Len(L) = 6
               /\ L[1].font.style = Chars("Black Italic") /\ ~ L[1].ok
               /\ L[6].font.style = Chars("Italic") /\ L[6].ok
               /\ FontSetsOf(k) # << >>
    /\ \E k \in 1..Len(segs) :
           LET L == LoadsOf(k)
           IN  /\ Len(L) = 6
               /\ \A i \in 1..6 : ~ L[i].ok
               /\ FontSetsOf(k) = << >>

(***************************************************************************)
(* Claims about the export and the review.                                 *)
(***************************************************************************)

\* the positions of the entries of a texts array that are marked isNew
NewPositions(texts) == SelectSeq([i \in 1..Len(texts) |-> i], LAMBDA i : texts[i].isNew)

WasUploaded(l) == \E i \in 1..Len(uploaded) : uploaded[i] = l

\* C3: the queue built for a language whose result was applied holds one item
\* per entry marked isNew, in response order, and nothing else; a result with
\* no such entry gives no queue; the entries not marked isNew are applied to
\* the duplicate; a language whose result was not applied has no queue.
C3_ReviewQueue ==
    \A l \in LangSet :
        /\ Has(pendingReviews, l) => lp[l].pc = "done" /\ lp[l].success
        /\ (lp[l].pc = "done" /\ lp[l].success) =>
             LET texts == lp[l].response.texts
                 news  == NewPositions(texts)
             IN  /\ IF news = << >> \/ WasUploaded(l)
                    THEN ~ Has(pendingReviews, l)
                    ELSE /\ Has(pendingReviews, l)
                         /\ Len(Get(pendingReviews, l).items) = Len(news)
                         /\ \A k \in 1..Len(news) :
                                LET item == Get(pendingReviews, l).items[k]
                                IN  /\ item.nodeId = texts[news[k]].nodeId
                                    /\ item.html = texts[news[k]].html
                 /\ \A j \in 1..Len(texts) :
                        (~ texts[j].isNew /\ texts[j].nodeId \in 1..doc.units) =>
                            frames[l].nodes[texts[j].nodeId]
                                = [by |-> "translation", html |-> texts[j].html]

\* C3 witness: a response of two entries, the second one new, was applied: the
\* queue has the one item and the first entry is in the duplicate
C3_Witness ==
    \E l \in LangSet :
        /\ lp[l].pc = "done" /\ lp[l].success
        /\ Len(lp[l].response.texts) = 2
        /\ ~ lp[l].response.texts[1].isNew /\ lp[l].response.texts[2].isNew
        /\ Has(pendingReviews, l)
        /\ Len(Get(pendingReviews, l).items) = 1
        /\ Get(pendingReviews, l).items[1].nodeId = 2
        /\ frames[l].nodes[1].by = "translation"

\* C4: when an upload succeeds the language's queue and mapping are removed;
\* then a load-review is posted for the earliest language of the review order
\* that still has a queue, or, when none has, the plugin closes.
C4_UploadAdvances ==
    [][uploaded' # uploaded =>
          LET l    == uploaded'[Len(uploaded')]
              left == {k \in 1..Len(languageOrder) :
                          Has(pendingReviews', languageOrder[k])}
          IN  /\ uploaded' = Append(uploaded, l)
              /\ Has(pendingReviews, l) /\ Has(nodeIdMappings, l)
              /\ ~ Has(pendingReviews', l) /\ ~ Has(nodeIdMappings', l)
              /\ \A m \in LangSet \ {l} :
                     /\ Has(pendingReviews', m) <=> Has(pendingReviews, m)
                     /\ Has(nodeIdMappings', m) <=> Has(nodeIdMappings, m)
              /\ IF left = {}
                 THEN phase' = "closed" /\ posted' = posted
                 ELSE LET first == languageOrder[FirstOf(left)]
                      IN  /\ phase' = "review"
                          /\ Len(posted') = Len(posted) + 1
                          /\ SubSeq(posted', 1, Len(posted)) = posted
                          /\ posted'[Len(posted')].type = "load-review"
                          /\ posted'[Len(posted')].lang = first
                          /\ posted'[Len(posted')].translations
                               = Get(pendingReviews', first).items]_vars

\* C4 witness: three languages had queues, discovered in another order than
\* they were ticked; the first was uploaded and the second is presented
C4_Witness ==
    /\ Len(languageOrder) = 3
    /\ languageOrder # languages
    /\ uploaded = << languageOrder[1] >>
    /\ Len(pendingReviews) = 2
    /\ Len(posted) = 2
    /\ posted[2].lang = languageOrder[2]

\* C5: the first load-review is posted only when every language's callback
\* has returned, and a load-review for another language than the one
\* presented is posted only in the step in which the upload of the presented
\* language succeeds.
C5_SequentialReview ==
    [][posted' # posted =>
          /\ Len(posted') = Len(posted) + 1
          /\ SubSeq(posted', 1, Len(posted)) = posted
          /\ IF posted = << >>
             THEN /\ mapIdx > Len(languages)
                  /\ \A i \in 1..Len(languages) : lp[languages[i]].pc = "done"
                  /\ \A m \in LangSet : lp[m].pc \in {"none", "done"}
             ELSE posted'[Len(posted')].lang # posted[Len(posted)].lang =>
                      uploaded' = Append(uploaded, posted[Len(posted)].lang)]_vars

\* C5 witness: a second language is presented after the upload of the first
C5_Witness ==
    /\ Len(posted) = 2
    /\ posted[1].lang # posted[2].lang
    /\ uploaded = << posted[1].lang >>
    /\ phase = "review"

\* C6: no response of any language is processed before every selected
\* language has sent its first request, and while a language has still to
\* send its first request no response has been processed.
C6_FanOut ==
    /\ (\E l \in LangSet : lp[l].got > 0) =>
           \A i \in 1..Len(languages) : Len(sentBy[languages[i]]) >= 1
    /\ (\E i \in 1..Len(languages) : lp[languages[i]].pc = "new") =>
           \A l \in LangSet : lp[l].got = 0

\* C6 witness: three languages have a request in flight and the response of
\* the last one is the first to have been processed
C6_Witness ==
    /\ Len(languages) = 3
    /\ \A i \in 1..3 : Len(sentBy[languages[i]]) = 1
    /\ lp[languages[3]].got = 1
    /\ lp[languages[1]].pc = "awaiting"
    /\ lp[languages[2]].pc = "awaiting"

\* the result of a language was applied and recorded
Recorded(l) == frames[l].exists /\ Has(duplicatedFrames, l)

\* C7: a language that fails (status not ok, network failure, exception while
\* applying) fails alone: every export run reaches fan-in and goes on to
\* review or completion, with every callback returned and every language
\* whose result was applied recorded.
C7_FailureIsolated ==
    /\ [](phase \in {"review", "closed"} =>
             \A i \in 1..Len(languages) :
                 /\ lp[languages[i]].pc = "done"
                 /\ lp[languages[i]].success => Recorded(languages[i]))
    /\ (phase = "translating") ~> (phase \in {"review", "closed"})

\* C7 witness: of three languages one got a status that is not ok, one threw
\* while its translation was applied, and the third is presented for review
C7_Witness ==
    /\ phase = "review"
    /\ Len(languages) = 3
    /\ \E a, b, c \in LangSet :
           /\ lp[a].pc = "done" /\ ~ lp[a].success /\ ~ frames[a].exists /\ lp[a].got = 1
           /\ lp[b].pc = "done" /\ ~ lp[b].success /\ frames[b].exists
           /\ lp[c].pc = "done" /\ lp[c].success /\ Recorded(c)
           /\ Has(pendingReviews, c)

\* C10: when the payload is over the limit a language's requests carry, in
\* order, the consecutive batches of CHUNK_SIZE units of the list, the last
\* one the 1..CHUNK_SIZE units that remain, batch k of n tagged
\* {index: k, total: n}; together they are the list.  A payload at or under
\* the limit goes out whole and untagged.
C10_Chunking ==
    IF doc.payloadLen <= MAX_PAYLOAD_SIZE
    THEN \A l \in LangSet :
             /\ Len(sentBy[l]) <= 1
             /\ \A k \in 1..Len(sentBy[l]) :
                    sentBy[l][k].texts = textNodes /\ sentBy[l][k].chunk = NoChunk
    ELSE
        \A l \in LangSet :
            LET reqs  == sentBy[l]
                n     == Len(textNodes)
                total == (n + CHUNK_SIZE - 1) \div CHUNK_SIZE
            IN  /\ Len(reqs) <= total
                /\ \A k \in 1..Len(reqs) :
                       /\ reqs[k].chunk = [index |-> k, total |-> total]
                       /\ reqs[k].texts
                            = SubSeq(textNodes, (k - 1) * CHUNK_SIZE + 1,
                                     Min(k * CHUNK_SIZE, n))
                       /\ k < total => Len(reqs[k].texts) = CHUNK_SIZE
                       /\ Len(reqs[k].texts) \in 1..CHUNK_SIZE
                /\ (reqs # << >> /\ Len(reqs) = total) =>
                       Concat([k \in 1..Len(reqs) |-> reqs[k].texts]) = textNodes

\* C10 witness: 450 units went out as batches of 200, 200 and 50 tagged 1/3,
\* 2/3 and 3/3
C10_Witness ==
    \E l \in LangSet :
        /\ Len(textNodes) = 2 * CHUNK_SIZE + 50
        /\ Len(sentBy[l]) = 3
        /\ Len(sentBy[l][1].texts) = CHUNK_SIZE
        /\ Len(sentBy[l][2].texts) = CHUNK_SIZE
        /\ Len(sentBy[l][3].texts) = 50
        /\ \A k \in 1..3 : sentBy[l][k].chunk = [index |-> k, total |-> 3]

(***************************************************************************)
(* Claims about the batches of a chunked export.                           *)
(***************************************************************************)

\* the requests of a language that have not been answered
InFlight(l) == Len(sentBy[l]) - lp[l].got

\* C11: a language has at most one request in flight, its requests were sent
\* in index order, and batch k+1 was sent only after k responses had been
\* received.
C11_BatchesSequential ==
    \A l \in LangSet :
        /\ InFlight(l) \in {0, 1}
        /\ \A k \in 1..Len(sentBy[l]) :
               doc.payloadLen > MAX_PAYLOAD_SIZE => sentBy[l][k].chunk.index = k
        /\ lp[l].pc = "awaiting" => InFlight(l) = 1 /\ lp[l].i = Len(sentBy[l])

\* C11 witness: one language has had two batches answered and its third is in
\* flight while the first batch of another language is still in flight
C11_Witness ==
    \E a, b \in LangSet :
        /\ a # b
        /\ Len(sentBy[a]) = 3 /\ lp[a].got = 2
        /\ sentBy[a][3].chunk = [index |-> 3, total |-> 3]
        /\ Len(sentBy[b]) = 1 /\ lp[b].got = 0

\* the number of batches of the export
Batches == (Len(textNodes) + CHUNK_SIZE - 1) \div CHUNK_SIZE

\* the node of the duplicate was written from an entry of the texts
WrittenFrom(content, nodeId, texts) ==
    content.by = "original"
    \/ \E j \in 1..Len(texts) : texts[j].nodeId = nodeId /\ texts[j].html = content.html

\* C12: in a chunked export the response a language keeps is the one to its
\* last batch; the bodies of the earlier responses are dropped, and the
\* duplicate and the queue of the language are made of the kept response only.
C12_LastBatchOnly ==
    doc.payloadLen > MAX_PAYLOAD_SIZE =>
        \A l \in LangSet :
            /\ lp[l].response.kind = "json" =>
                   lp[l].response.batch = Batches /\ lp[l].got = Batches
            /\ \A d \in 1..Len(lp[l].dropped) : lp[l].dropped[d].batch < Batches
            /\ lp[l].got < Batches =>
                   ~ frames[l].exists /\ ~ Has(pendingReviews, l) /\ ~ Has(nodeIdMappings, l)
            /\ frames[l].exists =>
                   \A i \in 1..Len(frames[l].nodes) :
                       WrittenFrom(frames[l].nodes[i], i, lp[l].response.texts)
            /\ Has(pendingReviews, l) =>
                   \A k \in 1..Len(Get(pendingReviews, l).items) :
                       \E j \in 1..Len(lp[l].response.texts) :
                           /\ lp[l].response.texts[j].isNew
                           /\ lp[l].response.texts[j].nodeId
                                = Get(pendingReviews, l).items[k].nodeId
                           /\ lp[l].response.texts[j].html
                                = Get(pendingReviews, l).items[k].html

\* C12 witness: of three batches the first two were answered with texts that
\* have new entries and the third with texts that have none: the duplicate is
\* made of the third answer and there is no queue
C12_Witness ==
    \E l \in LangSet :
        /\ doc.payloadLen > MAX_PAYLOAD_SIZE
        /\ Batches = 3
        /\ Len(lp[l].dropped) = 2
        /\ \A d \in 1..2 : \E j \in 1..Len(lp[l].dropped[d].texts) :
               lp[l].dropped[d].texts[j].isNew
        /\ lp[l].pc = "done" /\ lp[l].success
        /\ lp[l].response.batch = 3
        /\ frames[l].exists
        /\ frames[l].nodes[1].by = "translation"
        /\ ~ Has(pendingReviews, l)

(***************************************************************************)
(* Claims about the failures of an export.                                 *)
(***************************************************************************)

\* C13: with a selection that is empty, of more than one node, or of one node
\* that is not a frame, no request is ever sent, no duplicate is created,
\* nothing is posted and the review state stays as it was.
C13_SelectionAborts ==
    doc.selection \in {"none", "two", "text"} =>
        /\ phase \in {"idle", "rejected"}
        /\ \A l \in LangSet : sentBy[l] = << >> /\ ~ frames[l].exists /\ lp[l].pc = "none"
        /\ reviewState = << << >>, << >>, << >>, << >> >>
        /\ posted = << >>

\* C13 witness: the export message was handled with two nodes selected
C13_Witness == phase = "rejected" /\ doc.selection = "two"

\* the response of the language was not JSON or has an entry without html
Malformed(l) ==
    /\ lp[l].pc = "done"
    /\ lp[l].got > 0
    /\ \/ lp[l].response.kind # "json"
       \/ \E j \in 1..Len(lp[l].response.texts) : lp[l].response.texts[j].html = NoMarkup

\* C14: a language whose response was not JSON or lacked a required field
\* has no duplicate frame, no queue and no mapping.
C14_MalformedIsNoTranslation ==
    \A l \in LangSet :
        Malformed(l) =>
            /\ ~ frames[l].exists
            /\ ~ Has(duplicatedFrames, l)
            /\ ~ Has(pendingReviews, l)
            /\ ~ Has(nodeIdMappings, l)

(***************************************************************************)
(* Claims about elements that are not closed.                              *)
(***************************************************************************)

\* the offsets of the markup where a style or emphasis element opens
Openers(s) ==
    {k \in 0..(Len(s) - 1) :
        StartsWithAt(s, k, Chars("<span")) \/ StartsWithAt(s, k, Chars("<em>"))}

\* the markup opens an element and closes none
NothingClosed(s) ==
    /\ Openers(s) # {}
    /\ ~ Includes(s, Chars("</em>"))
    /\ ~ Includes(s, Chars("</span>"))

\* the markup from the end of its first opening tag
Interior(s) ==
    LET at == FirstOf(Openers(s))
    IN  IF StartsWithAt(s, at, Chars("<em>")) THEN SubstringFrom(s, at + 4)
        ELSE SubstringFrom(s, at + 1 + RunUntil(s, at, ">"))

WeightByOrder(name) ==
    CASE Includes(name, Chars("semibold")) \/ Includes(name, Chars("semi bold")) -> Chars("600")
      [] OTHER ->
         CASE Includes(name, Chars("bold")) -> Chars("700")
           [] OTHER ->
              CASE Includes(name, Chars("medium")) -> Chars("500")
                [] OTHER ->
                   CASE Includes(name, Chars("light")) -> Chars("300")
                     [] OTHER ->
                        CASE Includes(name, Chars("thin")) -> Chars("100")
                          [] OTHER ->
                             CASE Includes(name, Chars("black"))
                                  \/ Includes(name, Chars("heavy")) -> Chars("900")
                               [] OTHER -> Chars("400")

\* C16: the weight emitted for a run is the one the order semibold/semi bold,
\* bold, medium, light, thin, black/heavy, regular gives its style name; a
\* name with semibold or semi bold gives 600 and never 700; font-style
\* italic is emitted exactly for the names that contain italic.
C16_WeightPrecedence ==
    (origin = "encoder" /\ decoded.done) =>
        LET S == GapFilled(hostNode)
            D == decoded.value
        IN  /\ Len(D) = Len(S)
            /\ \A k \in 1..Len(S) :
                   ~ S[k].gap =>
                       LET name == ToLowerCase(S[k].run.font.style)
                       IN  /\ D[k].styles.fontWeight = WeightByOrder(name)
                           /\ (Includes(name, Chars("semibold"))
                               \/ Includes(name, Chars("semi bold"))) =>
                                  /\ D[k].styles.fontWeight = Chars("600")
                                  /\ (Len(S) = 1 =>
                                         /\ Includes(markup, Chars("font-weight:600"))
                                         /\ ~ Includes(markup, Chars("font-weight:700")))
                           /\ (D[k].styles.fontStyle = Chars("italic"))
                                <=> Includes(name, Chars("italic"))
                           /\ D[k].styles.fontStyle \in {Chars("italic"), Undefined}

\* C16 witness: a run in "SemiBold Italic" and a run in "Semi Bold" were
\* encoded and decoded
C16_Witness ==
    /\ origin = "encoder" /\ decoded.done
    /\ Len(hostNode.segments) = 2
    /\ hostNode.segments[1].fontName.style = Chars("SemiBold Italic")
    /\ hostNode.segments[2].fontName.style = Chars("Semi Bold")
    /\ Len(decoded.value) = 2
    /\ decoded.value[1].styles.fontWeight = Chars("600")
    /\ decoded.value[1].styles.fontStyle = Chars("italic")
    /\ decoded.value[2].styles.fontWeight = Chars("600")

\* the weights of the canonical table and their style names
CanonicalWeights ==
    << [weight |-> "100", name |-> "Thin"], [weight |-> "300", name |-> "Light"],
       [weight |-> "400", name |-> "Regular"], [weight |-> "500", name |-> "Medium"],
       [weight |-> "600", name |-> "Semi Bold"], [weight |-> "700", name |-> "Bold"],
       [weight |-> "900", name |-> "Black"] >>

IsCanonical(weight) == \E i \in 1..Len(CanonicalWeights) : Chars(CanonicalWeights[i].weight) = weight

\* the table's name for a weight, with the suffix when italic is requested
\* (the italic of Regular is named Italic)
CanonicalName(weight, italic) ==
    LET row == CanonicalWeights[CHOOSE i \in 1..Len(CanonicalWeights) :
                                    Chars(CanonicalWeights[i].weight) = weight]
    IN  IF ~ italic THEN Chars(row.name)
        ELSE IF row.name = "Regular" THEN Chars("Italic")
        ELSE Chars(row.name) \o Chars(" Italic")

\* C17: the style the applier asks the host for, for a segment whose weight
\* is in the canonical table, is the table's name for the weight, with the
\* Italic suffix exactly when the segment is italic.
C17_TargetStyleFromTable ==
    \A k \in 1..Len(segs) :
        (pc # "begin" /\ cursor.idx >= 1 /\ FontDone(k) /\ segs[k].text # << >>
         /\ IsCanonical(segs[k].styles.fontWeight)) =>
            LET name == CanonicalName(segs[k].styles.fontWeight,
                                      segs[k].styles.fontStyle = Chars("italic"))
            IN  IF LoadsOf(k) # << >>
                THEN LoadsOf(k)[1].font.style = name
                ELSE \/ node.fonts[SegStart(k) + 1].style = name
                     \/ originalFont.style = name

\* the font size of segment k as the applier knows it when it reaches the
\* spacing properties: the size the markup gives, else the range's own size
SegmentFontSize(k) ==
    LET st == segs[k].styles
    IN  IF st.fontSize # Undefined
        THEN LET size == ParseFloat(st.fontSize)
             IN  IF size.isNaN THEN NoSize ELSE SizeOf(size.value)
        ELSE IF Host.mixed /\ Len(segs[k].text) > 1 THEN NoSize
        ELSE SizeOf(Host.size)

\* a plain decimal number, with no unit
IsNumber(s) == s # << >> /\ \A i \in 1..Len(s) : s[i] \in DigitSet \cup {".", "-"}

\* the applier is past this property of segment k
PropDone(k, prop) ==
    /\ k \in 1..Len(segs)
    /\ segs[k].text # << >>
    /\ \/ k < cursor.idx
       \/ /\ k = cursor.idx
          /\ \E i \in 1..Len(PropOrder) : PropOrder[i] = pc /\ i > PropIndex(prop)

AttemptsOf(k, prop) == SelectSeq(attempts, LAMBDA a : a.seg = k /\ a.prop = prop)

\* what the conversion rules give for a line-height
LineHeightByRule(lh, size) ==
    IF EndsWith(lh, Chars("%")) THEN [ok |-> TRUE, value |-> ParseFloat(lh), unit |-> "PERCENT"]
    ELSE IF EndsWith(lh, Chars("px"))
    THEN [ok |-> TRUE, value |-> ParseFloat(lh), unit |-> "PIXELS"]
    ELSE IF size.present
    THEN [ok |-> TRUE, value |-> Num(Times(ParseFloat(lh).value, size.value)),
          unit |-> "PIXELS"]
    ELSE [ok |-> TRUE, value |-> Num(ParseFloat(lh).value * 100), unit |-> "PERCENT"]

\* what the conversion rules give for a letter-spacing
LetterSpacingByRule(ls, size) ==
    IF EndsWith(ls, Chars("%")) THEN [ok |-> TRUE, value |-> ParseFloat(ls), unit |-> "PERCENT"]
    ELSE IF EndsWith(ls, Chars("px"))
    THEN [ok |-> TRUE, value |-> ParseFloat(ls), unit |-> "PIXELS"]
    ELSE [ok |-> TRUE, unit |-> "PIXELS",
          value |-> Num(Times(ParseFloat(ls).value,
                              IF size.present THEN size.value ELSE 16 * Scale))]

\* the line-height is one the conversion rules cover: a number, or a number
\* followed by % or px
LineHeightCovered(lh) ==
    \/ IsNumber(lh)
    \/ \E u \in {Chars("%"), Chars("px")} :
           EndsWith(lh, u) /\ IsNumber(SubSeq(lh, 1, Len(lh) - Len(u)))

LetterSpacingCovered(ls) ==
    \E u \in {Chars("%"), Chars("px"), Chars("em")} :
        EndsWith(ls, u) /\ IsNumber(SubSeq(ls, 1, Len(ls) - Len(u)))

C19_UnrecognizedUnitSkipped ==
    \A k \in 1..Len(segs) :
        LET st == segs[k].styles
        IN  /\ (PropDone(k, "lineHeight") /\ st.lineHeight # Undefined
                /\ ~ LineHeightCovered(st.lineHeight))
               => AttemptsOf(k, "lineHeight") = << >>
            /\ (PropDone(k, "letterSpacing") /\ st.letterSpacing # Undefined
                /\ ~ LetterSpacingCovered(st.letterSpacing))
               => AttemptsOf(k, "letterSpacing") = << >>

(***************************************************************************)
(* Claims about the Run Extractor.                                         *)
(***************************************************************************)

\* the fills of a run that are solid and not hidden, by position
VisibleSolids(fills) ==
    {k \in 1..Len(fills) : fills[k].type = "SOLID" /\ fills[k].visible # FALSE}

\* the position, among the segments decoded from the node's markup, of the
\* one that carries style run j
DecodedPosition(j) ==
    LET S == GapFilled(hostNode)
    IN  CHOOSE k \in 1..Len(S) :
            /\ ~ S[k].gap
            /\ Cardinality({i \in 1..k : ~ S[i].gap}) = j

\* C20 (as claimed): the colour emitted for a style run is that of its first
\* fill that is both solid and visible, whatever non-solid or hidden fills
\* come before it, and no colour is emitted for a run without such a fill
C20_FirstVisibleSolidFill ==
    (origin = "encoder" /\ decoded.done) =>
        \A j \in 1..Len(hostNode.segments) :
            LET fills  == hostNode.segments[j].fills
                color  == decoded.value[DecodedPosition(j)].styles.color
                shown  == VisibleSolids(fills)
            IN  IF shown = {}
                THEN color = Undefined
                ELSE LET first == fills[CHOOSE k \in shown : \A i \in shown : k <= i]
                         c     == parseColor(color)
                     IN  /\ color # Undefined
                         /\ c.ok
                         /\ c.r = RoundChannel(first.color.r)
                         /\ c.g = RoundChannel(first.color.g)
                         /\ c.b = RoundChannel(first.color.b)

(***************************************************************************)
(* Claims about the review state.                                          *)
(***************************************************************************)

\* C21: a language has a queue only while it holds unresolved new items:
\* every queue is non-empty and each of its items comes from an entry of the
\* language's response marked isNew; a language whose response has no such
\* entry has no queue; a language whose upload succeeded has no queue
C21_QueueOnlyWhileUnresolved ==
    /\ \A i \in 1..Len(pendingReviews) :
           LET q     == pendingReviews[i]
               texts == lp[q.lang].response.texts
           IN  /\ q.items # << >>
               /\ \A k \in 1..Len(q.items) :
                      \E j \in 1..Len(texts) :
                          /\ texts[j].isNew
                          /\ texts[j].nodeId = q.items[k].nodeId
                          /\ texts[j].html = q.items[k].html
    /\ \A l \in LangSet :
           (\A j \in 1..Len(lp[l].response.texts) : ~ lp[l].response.texts[j].isNew)
               => ~ \E i \in 1..Len(pendingReviews) : pendingReviews[i].lang = l
    /\ \A n \in 1..Len(uploaded) :
           ~ \E i \in 1..Len(pendingReviews) : pendingReviews[i].lang = uploaded[n]

\* one language's upload has succeeded and its queue is gone, another still
\* has its queue, and a third was translated with nothing new and has none
C21_Witness ==
    /\ Len(uploaded) = 1
    /\ lp[uploaded[1]].success
    /\ \E j \in 1..Len(lp[uploaded[1]].response.texts) : lp[uploaded[1]].response.texts[j].isNew
    /\ Len(pendingReviews) = 1
    /\ \E l \in LangSet :
           /\ lp[l].success
           /\ lp[l].response.texts # << >>
           /\ \A j \in 1..Len(lp[l].response.texts) : ~ lp[l].response.texts[j].isNew
           /\ \A i \in 1..Len(pendingReviews) : pendingReviews[i].lang # l

\* C22 (as claimed): the duplicate made for a requested language L is named
\* the original's name followed by " [L]"; it is the frame kept under L in
\* the review state, and the one L's upload request names
C22_DuplicateNamedAfterLanguage ==
    /\ \A l \in LangSet :
           frames[l].exists => frames[l].name = FrameName \o " [" \o l \o "]"
    /\ \A i \in 1..Len(duplicatedFrames) : frames[duplicatedFrames[i].lang].exists
    /\ upload.pc = "inflight" =>
           /\ upload.request.frame.id = upload.lang
           /\ upload.request.frame.name = FrameName \o " [" \o upload.lang \o "]"

\* the html of the last entry of the response for the node, << >> when the
\* response has no entry for it
LastEntryFor(texts, n) ==
    LET at == {j \in 1..Len(texts) : texts[j].nodeId = n}
    IN  IF at = {} THEN << >>
        ELSE texts[CHOOSE j \in at : \A i \in at : i <= j].html

\* C23: once a language's result has been applied to its duplicate, an entry
\* whose nodeId has no node at its traversal position has changed nothing,
\* and every other entry has been applied to the node at the position of its
\* nodeId: that node carries the entry's markup (until the user edits it),
\* and a node no entry names still has its original content
C23_MismatchSkipped ==
    \A l \in LangSet :
        (lp[l].pc = "done" /\ lp[l].success) =>
            LET texts == lp[l].response.texts
            IN  /\ Len(frames[l].nodes) = doc.units
                /\ \A n \in 1..doc.units :
                       IF \E j \in 1..Len(texts) : texts[j].nodeId = n
                       THEN /\ frames[l].nodes[n].by # "original"
                            /\ frames[l].nodes[n].by = "translation"
                                 => frames[l].nodes[n].html = LastEntryFor(texts, n)
                       ELSE frames[l].nodes[n] = OriginalContent(n)

\* a response whose first entry names a node the frame does not have was
\* applied: the entry after it is on its node
C23_Witness ==
    \E l \in LangSet :
        /\ lp[l].pc = "done" /\ lp[l].success
        /\ doc.units = 1
        /\ Len(lp[l].response.texts) = 2
        /\ lp[l].response.texts[1].nodeId = 2
        /\ lp[l].response.texts[2].nodeId = 1
        /\ frames[l].nodes[1] = [by |-> "translation", html |-> lp[l].response.texts[2].html]

\* the step is a highlight that found its node: the selection becomes the one
\* node of a duplicate (a highlight that finds none changes nothing at all)
HighlightStep ==
    /\ phase = "review"
    /\ selected' # selected
    /\ Len(selected') = 1
    /\ selected'[1].node # 0

\* C24: highlight is read-only: whether or not the node is found, a highlight
\* changes nothing but the selection: every queue, every mapping, the
\* duplicates kept, the language order and the content of every node of every
\* frame stay as they were, and no translation or upload request is sent
C24_HighlightReadOnly ==
    [][HighlightStep =>
          /\ UNCHANGED <<pendingReviews, nodeIdMappings, duplicatedFrames, languageOrder>>
          /\ UNCHANGED frames
          /\ UNCHANGED <<sentBy, upload, uploaded, posted>>]_vars

\* a highlight has selected the duplicate's node of a presented item
C24_Witness ==
    /\ phase = "review"
    /\ Len(selected) = 1
    /\ selected[1].node # 0
    /\ selected[1].lang = ui.lang
    /\ frames[ui.lang].exists

\* the styles of the first segment decoded from a style element with
\* attributes, and no styles when the markup has none
FirstStyles(segments) ==
    LET styled == {k \in 1..Len(segments) : segments[k].styles # NoStyles}
    IN  IF styled = {} THEN NoStyles
        ELSE segments[CHOOSE k \in styled : \A i \in styled : k <= i].styles

\* the node of language l's duplicate that an item's nodeId is mapped to
EditedFrom(l, n) ==
    {j \in 1..Len(lp[l].response.texts) :
        lp[l].response.texts[j].isNew /\ lp[l].response.texts[j].nodeId = n}

\* every attribute string a markup gives to a style element
AttributeStrings(h) ==
    {Substring(h, i + 7, IndexOf(h, <<"\"">>, i + 7)) :
        i \in {i \in 0..(Len(h) - 1) : StartsWithAt(h, i, Chars("style=\""))}}

\* one style element, with these attributes or with none, around a text
SingleElement(attributes, text) ==
    (IF attributes = << >> THEN Chars("<span>")
     ELSE Chars("<span style=\"") \o attributes \o Chars("\">"))
    \o escapeHtml(text) \o Chars("</span>")

\* the single elements that carry attributes of a new markup, each with the
\* segments it decodes to
DecodedSingle ==
    {<<h, parseHTML(h)>> :
        h \in {SingleElement(a, t) :
                  a \in {<< >>} \cup UNION {AttributeStrings(m) : m \in NewMarkups},
                  t \in EditPool}}

\* each new markup with the attributes of its first style element, decoded
DecodedFirstStyles == {<<m, FirstStyles(parseHTML(m))>> : m \in NewMarkups}

\* C25: the markup an apply-changes has put on a node of a duplicate is a
\* single style element around the entity-escaped edited text; decoded, it is
\* one segment with the edited text and the attributes of the first style
\* element of the item's previous markup, whatever number of runs that had
C25_EditCollapsesToFirstStyle ==
    \A l \in LangSet : \A n \in 1..Len(frames[l].nodes) :
        frames[l].nodes[n].by = "edit" =>
            \E j \in EditedFrom(l, n) : \E text \in EditPool :
                \E now \in DecodedSingle : \E prev \in DecodedFirstStyles :
                    /\ now[1] = frames[l].nodes[n].html
                    /\ prev[1] = lp[l].response.texts[j].html
                    /\ EndsWith(now[1], escapeHtml(text) \o Chars("</span>"))
                    /\ Len(now[2]) = 1
                    /\ now[2][1].text = text
                    /\ now[2][1].styles = prev[2]

\* an edit has been applied over a translation of two style runs, and one
\* over a translation that opens with unstyled text
EditOfTwoRuns ==
    \E l \in LangSet : \E n \in 1..Len(frames[l].nodes) :
        /\ frames[l].nodes[n].by = "edit"
        /\ \E j \in EditedFrom(l, n) :
               /\ Cardinality(AttributeStrings(lp[l].response.texts[j].html)) = 2
               /\ \E now \in DecodedSingle : \E prev \in DecodedFirstStyles :
                      /\ now[1] = frames[l].nodes[n].html
                      /\ prev[1] = lp[l].response.texts[j].html
                      /\ prev[2] # NoStyles
                      /\ now[2][1].styles = prev[2]

\* C26: the upload request for a language has exactly one entry for every
\* item of the language's queue, in the queue's order, with the item's
\* nodeId, its source text, and the translated text as presented or as the
\* user edited it; every entry is of a translation marked isNew
C26_UploadCarriesQueue ==
    upload.pc = "inflight" =>
        /\ \E i \in 1..Len(pendingReviews) : pendingReviews[i].lang = upload.lang
        /\ upload.request.lang = upload.lang
        /\ LET items == Get(pendingReviews, upload.lang).items
               texts == upload.request.texts
               resp  == lp[upload.lang].response.texts
           IN  /\ Len(texts) = Len(items)
               /\ \A k \in 1..Len(items) :
                      /\ texts[k].nodeId = items[k].nodeId
                      /\ texts[k].characters = items[k].charactersOriginal
                      /\ texts[k].characters_translated
                           \in {items[k].charactersTranslated} \cup EditPool
                      /\ \E j \in 1..Len(resp) :
                             resp[j].isNew /\ resp[j].nodeId = texts[k].nodeId
               /\ Len(texts) = Cardinality({j \in 1..Len(resp) : resp[j].isNew})

\* an upload is in flight for a queue of two items, the first of them edited
C26_Witness ==
    /\ upload.pc = "inflight"
    /\ Len(upload.request.texts) = 2
    /\ upload.request.texts[1].characters_translated \in EditPool
    /\ upload.request.texts[2].characters_translated \notin EditPool

\* C27: an upload neither re-applies nor reverts a translation: every step
\* of an upload (its request, its success, its failure) leaves the content of
\* every node of every duplicate as it was, so what apply-changes put on a
\* node is still there after the upload
C27_UploadKeepsFrames ==
    [][(upload' # upload \/ uploaded' # uploaded) => frames' = frames]_vars

\* a language's upload has succeeded, after one that failed, and a node of
\* its duplicate still carries the user's edit
C27_Witness ==
    /\ upload.failures > 0
    /\ \E i \in 1..Len(uploaded) :
           \E n \in 1..Len(frames[uploaded[i]].nodes) :
               frames[uploaded[i]].nodes[n].by = "edit"

\* C28: an item is marked applied only after the Style Applier has applied its
\* regenerated markup: whenever the translation object of the last
\* apply-changes message carries appliedToFrame, a node of that language's
\* duplicate has been set by the edit to the object's markup; with no mapping
\* for the language, an unmapped nodeId, or a failing applier it is not marked
C28_MarkedOnlyAfterApplied ==
    lastChange.appliedToFrame =>
        /\ lastChange.lang \in DOMAIN frames
        /\ \E n \in 1..Len(frames[lastChange.lang].nodes) :
               /\ frames[lastChange.lang].nodes[n].by = "edit"
               /\ frames[lastChange.lang].nodes[n].html = lastChange.html

(***************************************************************************)
(* Claims about the ranges the Style Applier mutates.                      *)
(***************************************************************************)

\* C29: the text of the unit is the concatenation of all segment texts
\* before any range is mutated, and every range mutated for segment k is
\* [start_k, end_k) with start_k the total length of the earlier segments,
\* end_k = start_k + the length of segment k and
\* 0 <= start_k < end_k <= the length of the new text; the ranges of different
\* segments do not overlap and no range is mutated for an empty segment
C29_RangesFollowSegments ==
    attempts # << >> =>
        /\ node.characters = SegmentsText(segs)
        /\ \A n \in 1..Len(attempts) :
               LET a == attempts[n]
               IN  /\ a.seg \in 1..Len(segs)
                   /\ segs[a.seg].text # << >>
                   /\ a.start = SegStart(a.seg)
                   /\ a.end = a.start + Len(segs[a.seg].text)
                   /\ 0 <= a.start /\ a.start < a.end
                   /\ a.end <= Len(node.characters)
        /\ \A n, m \in 1..Len(attempts) :
               attempts[n].seg < attempts[m].seg =>
                   attempts[n].end <= attempts[m].start

\* a styled segment, an empty one and a styled one were applied: ranges were
\* mutated for the first and the third, the third starting where the first ends
C29_Witness ==
    /\ pc = "done"
    /\ Len(segs) = 3
    /\ segs[2].text = << >>
    /\ \E n, m \in 1..Len(attempts) :
           /\ attempts[n].seg = 1
           /\ attempts[m].seg = 3
           /\ attempts[m].start = attempts[n].end
           /\ attempts[n].end > 0

(***************************************************************************)
(* Claims about the order of the encoder's output.                         *)
(***************************************************************************)

\* the properties of a style element, in the order the claim fixes
PropertyOrder ==
    << Chars("font-family"), Chars("font-weight"), Chars("font-style"),
       Chars("font-size"), Chars("color"), Chars("text-decoration"),
       Chars("letter-spacing"), Chars("line-height") >>

OrderOf(name) ==
    IF \E k \in 1..Len(PropertyOrder) : PropertyOrder[k] = name
    THEN CHOOSE k \in 1..Len(PropertyOrder) : PropertyOrder[k] = name
    ELSE 0

\* the offsets at which the markup opens a style element
ElementStarts(h) ==
    {i \in 0..(Len(h) - 1) : StartsWithAt(h, i, Chars("<span style=\""))}

\* the offset of the j-th style element of the markup
ElementStart(h, j) ==
    CHOOSE i \in ElementStarts(h) :
        Cardinality({e \in ElementStarts(h) : e < i}) = j - 1

\* the value of the style attribute of the element opened at offset i
AttributeAt(h, i) == Substring(h, i + 13, IndexOf(h, <<"\"">>, i + 13))

\* the names of the properties of a style attribute, in their order
PropertyNames(attribute) ==
    [k \in 1..Len(Split(attribute, ";")) |->
        LET part == Split(attribute, ";")[k]
        IN  Substring(part, 0, IndexOf(part, <<":">>, 0))]

\* C30: the markup the encoder emits has one style element per style run,
\* in run order, each holding its run's text; inside an element the
\* properties are in the order font-family, font-weight, font-style,
\* font-size, color, text-decoration, letter-spacing, line-height, none
\* twice; font-family, font-weight and font-size are always there,
\* font-style only if the face is italic, color only if the run has a solid
\* fill, text-decoration exactly if it is not NONE, letter-spacing and
\* line-height exactly if the run has a value for them
C30_ElementPerRunInOrder ==
    (origin = "encoder" /\ encoded) =>
        /\ Cardinality(ElementStarts(markup)) = Len(hostNode.segments)
        /\ \A j \in 1..Len(hostNode.segments) :
               LET seg       == hostNode.segments[j]
                   at        == ElementStart(markup, j)
                   attribute == AttributeAt(markup, at)
                   names     == PropertyNames(attribute)
                   has(name) == \E k \in 1..Len(names) : names[k] = Chars(name)
               IN  /\ StartsWithAt(markup, at,
                          Chars("<span style=\"") \o attribute \o Chars("\">")
                          \o HtmlText(Substring(hostNode.characters, seg.start, seg.end))
                          \o Chars("</span>"))
                   /\ \A k \in 1..Len(names) : OrderOf(names[k]) > 0
                   /\ \A k \in 1..(Len(names) - 1) :
                          OrderOf(names[k]) < OrderOf(names[k + 1])
                   /\ has("font-family") /\ has("font-weight") /\ has("font-size")
                   /\ has("font-style") => seg.face.italic
                   /\ has("color") => \E f \in 1..Len(seg.fills) :
                                         seg.fills[f].type = "SOLID"
                   /\ has("text-decoration") <=> seg.textDecoration # Chars("NONE")
                   /\ has("letter-spacing")
                   /\ has("line-height") <=> seg.lineHeight.unit # "AUTO"

\* two runs were encoded: the first with all eight properties, the second
\* with the three that are always there and letter-spacing only
C30_Witness ==
    /\ origin = "encoder" /\ encoded
    /\ Len(hostNode.segments) = 2
    /\ Len(PropertyNames(AttributeAt(markup, ElementStart(markup, 1)))) = 8
    /\ Len(PropertyNames(AttributeAt(markup, ElementStart(markup, 2)))) = 4

(***************************************************************************)
(* Claims about the decoding of nested elements.                           *)
(***************************************************************************)

\* the segments a style element with an emphasis element stands for: the
\* text before the emphasis with the enclosing style, if there is any, the
\* emphasized text with the enclosing style and font-style italic, the text
\* after the emphasis with the enclosing style, if there is any
NestedSegments(n) ==
    (IF n.texts[1] # << >>
     THEN << [text |-> n.texts[1], styles |-> n.styles] >> ELSE << >>)
    \o << [text |-> n.texts[2],
           styles |-> [n.styles EXCEPT !.fontStyle = Chars("italic")]] >>
    \o (IF n.texts[3] # << >>
        THEN << [text |-> n.texts[3], styles |-> n.styles] >> ELSE << >>)

\* C31: decoding a style element that contains an emphasis element yields
\* the segments in left-to-right text order: the emphasized text carries the
\* enclosing style's attributes with font-style overridden to italic, the
\* text before and after it carries the enclosing style unchanged
C31_EmphasisInheritsStyle ==
    (origin = "service" /\ decoded.done) =>
        \A k \in 1..Len(NestedPool) :
            markup = NestedMarkup(NestedPool[k]) =>
                decoded.value = NestedSegments(NestedPool[k])

\* a style element that sets font-style normal, with text before and after
\* its emphasis element, was decoded into three segments
C31_Witness ==
    /\ origin = "service" /\ decoded.done
    /\ markup = NestedMarkup(NestedPool[1])
    /\ Len(decoded.value) = 3
    /\ decoded.value[1].styles.fontStyle = Chars("normal")
    /\ decoded.value[2].styles.fontStyle = Chars("italic")

(***************************************************************************)
(* Claims about the review state and the frames.                           *)
(***************************************************************************)

\* C32: in every reachable state the languages that have a review queue
\* are the languages that have a node mapping: both are set in the step that
\* finds new items in a language's result and both are deleted in the step
\* in which its upload succeeds
C32_QueueIffMapping ==
    {pendingReviews[i].lang : i \in 1..Len(pendingReviews)}
        = {nodeIdMappings[i].lang : i \in 1..Len(nodeIdMappings)}

\* two languages got a queue and a mapping, the first was uploaded and lost
\* both, the second still has both
C32_Witness ==
    /\ Len(uploaded) = 1
    /\ Len(pendingReviews) = 1
    /\ Len(nodeIdMappings) = 1
    /\ pendingReviews[1].lang # uploaded[1]
    /\ nodeIdMappings[1].lang = pendingReviews[1].lang

\* C33: no operation changes the text or styles of a node of the frame the
\* user selected: its nodes are at every moment what they were before the
\* export, and every node of a duplicate is either the copy of the node of
\* the original at its traversal position or was written by a translation or
\* an edit
C33_OriginalUntouched ==
    /\ original = [i \in 1..doc.units |-> OriginalContent(i)]
    /\ \A l \in LangSet :
           frames[l].exists =>
               /\ Len(frames[l].nodes) = Len(original)
               /\ \A i \in 1..Len(original) :
                      \/ frames[l].nodes[i] = original[i]
                      \/ frames[l].nodes[i].by \in {"translation", "edit", "partial"}

\* a duplicate has a node set by a translation, another has a node set by an
\* edit, and the second node of the first is still the copy of the original's
C33_Witness ==
    \E l, m \in LangSet :
        /\ l # m
        /\ frames[l].exists /\ frames[m].exists
        /\ \E i \in 1..Len(frames[l].nodes) : frames[l].nodes[i].by = "translation"
        /\ \E i \in 1..Len(frames[m].nodes) : frames[m].nodes[i].by = "edit"
        /\ \E i \in 1..Len(frames[l].nodes) : frames[l].nodes[i] = original[i]

\* C34: while a language is presented, highlight and applyEdit act on that
\* language's duplicate: a highlight selects the node that the mapping of
\* the language named in the latest load-review gives for the item's nodeId,
\* and an edit changes no node of another language's duplicate
C34_ActsOnPresentedLanguage ==
    [][/\ HighlightStep =>
              /\ posted # << >>
              /\ selected'[1].lang = posted[Len(posted)].lang
              /\ Has(nodeIdMappings, selected'[1].lang)
              /\ \E k \in Reviewed :
                     /\ ui.items[k].nodeId
                            \in 1..Len(Get(nodeIdMappings, selected'[1].lang).nodes)
                     /\ selected'[1].node =
                            Get(nodeIdMappings, selected'[1].lang).nodes[ui.items[k].nodeId]
       /\ (phase = "review" /\ frames' # frames) =>
              \A l \in LangSet :
                     (l # posted[Len(posted)].lang) => (frames'[l] = frames[l])]_vars

\* two languages have a mapping, and a highlight has selected a node of the
\* duplicate of the presented one, which an edit has changed
C34_Witness ==
    /\ phase = "review"
    /\ Len(nodeIdMappings) = 2
    /\ Len(selected) = 1
    /\ selected[1].node # 0
    /\ selected[1].lang = posted[Len(posted)].lang
    /\ frames[selected[1].lang].nodes[selected[1].node].by = "edit"

\* C35: after a successful applyEdit of an item, the text of the mapped node
\* of the duplicate, which is the text of the segments its applied markup
\* decodes to, equals the item's edited plain text, whatever markup the item
\* had before
C35_EditedTextIsNodeText ==
    (/\ lastChange.appliedToFrame
     /\ \E n \in 1..Len(frames[lastChange.lang].nodes) :
            /\ frames[lastChange.lang].nodes[n].by = "edit"
            /\ frames[lastChange.lang].nodes[n].html = lastChange.html)
        => SegmentsText(parseHTML(lastChange.html)) = lastChange.charactersTranslated

\* C36: when the upload of a language fails, the step leaves the language's
\* queue and mapping and the review order as they were, posts no load-review
\* and does not close the plugin, and the same language can be uploaded
\* again: the language is still presented, its duplicate is still stored
\* and no upload is in flight
C36_FailedUploadKeepsState ==
    [][(upload.pc = "inflight" /\ upload'.failures > upload.failures) =>
          /\ pendingReviews' = pendingReviews
          /\ nodeIdMappings' = nodeIdMappings
          /\ languageOrder' = languageOrder
          /\ Has(pendingReviews', upload.lang)
          /\ Has(nodeIdMappings', upload.lang)
          /\ posted' = posted
          /\ uploaded' = uploaded
          /\ phase' = "review"
          /\ ui' = ui
          /\ ui'.lang = upload.lang
          /\ upload'.pc = "idle"
          /\ Has(duplicatedFrames', ui'.lang)]_vars

\* the upload of a language failed and the same language was sent again
C36_Witness ==
    /\ phase = "review"
    /\ upload.failures > 0
    /\ upload.pc = "inflight"
    /\ upload.lang = ui.lang
    /\ Has(pendingReviews, upload.lang)

(***************************************************************************)
(* Claims about the end of the review.                                     *)
(***************************************************************************)

\* the languages of the load-review messages posted, in the order posted
Presented == [i \in 1..Len(posted) |-> posted[i].lang]

Base64Value(ch) == (CHOOSE k \in 1..64 : base64chars[k] = ch) - 1

\* the standard Base64 text of bytes: three bytes make four characters, two
\* remaining bytes make three characters and one '=', one remaining byte
\* makes two characters and '=='
RECURSIVE StandardBase64(_)
StandardBase64(bytes) ==
    IF bytes = << >> THEN << >>
    ELSE LET a      == bytes[1]
             b      == IF Len(bytes) >= 2 THEN bytes[2] ELSE 0
             c      == IF Len(bytes) >= 3 THEN bytes[3] ELSE 0
             bitmap == a * 65536 + b * 256 + c
         IN  << CharAt(base64chars, (bitmap \div 262144) % 64),
                CharAt(base64chars, (bitmap \div 4096) % 64),
                IF Len(bytes) >= 2 THEN CharAt(base64chars, (bitmap \div 64) % 64)
                ELSE "=",
                IF Len(bytes) >= 3 THEN CharAt(base64chars, bitmap % 64) ELSE "=" >>
             \o (IF Len(bytes) > 3 THEN StandardBase64(SubSeq(bytes, 4, Len(bytes)))
                 ELSE << >>)

\* the bytes a Base64 text decodes to: four characters make three bytes, a
\* group ending in '=' two, a group ending in '==' one
RECURSIVE Base64Decode(_)
Base64Decode(text) ==
    IF Len(text) < 4 THEN << >>
    ELSE LET v(k)   == IF text[k] = "=" THEN 0 ELSE Base64Value(text[k])
             bitmap == v(1) * 262144 + v(2) * 4096 + v(3) * 64 + v(4)
             group  == << bitmap \div 65536, (bitmap \div 256) % 256, bitmap % 256 >>
             kept   == IF text[3] = "=" THEN 1 ELSE IF text[4] = "=" THEN 2 ELSE 3
         IN  SubSeq(group, 1, kept) \o Base64Decode(SubSeq(text, 5, Len(text)))

\* C38: uint8ArrayToBase64 returns the standard Base64 encoding of its input
\* for every length, padded with '=' when the length is not a multiple of
\* 3, so that decoding the result gives back the input bytes
C38_StandardBase64 ==
    frameImageBase64.done =>
        /\ frameImageBase64.value = StandardBase64(imageBytes)
        /\ Base64Decode(frameImageBase64.value) = imageBytes

=============================================================================
